---- MODULE Spec2Model ----
(***************************************************************************)
(* Verification model of the PR analysis pipeline of the AI code review    *)
(* assistant backend: the finding deduplicator, the unified-diff parser    *)
(* and the rule engine's line tracking, the per-run coordinator (Celery    *)
(* task, inline analysis, webhook, manual trigger, rerun), the rule        *)
(* engine's checks, the LLM service (provider choice, provider calls,      *)
(* analyze_diff, the parser of LLM responses, the risk score) and the      *)
(* clustering of past findings.  Specifications: SpecDedup, SpecDiff,      *)
(* Spec, SpecRules, SpecCall, SpecAnalyze, SpecParse, SpecRisk,            *)
(* SpecCluster.                                                            *)
(***************************************************************************)
EXTENDS Integers, Sequences, FiniteSets, TLC

(***************************************************************************)
(* Bounds of the model.                                                    *)
(***************************************************************************)
MaxFindings == 3

MaxPatchLen == 4

MaxExecs == 2

MaxReruns == 1

MaxFaults == 2
\* added lines of the file the rule checks run on
MaxRuleLines == 2
\* file changes of the pull request given to the LLM analysis
MaxFiles == 3
\* items of the JSON array in an LLM response
MaxItems == 3
\* historical findings of the project given to the pattern analysis
MaxHistory == 5

(***************************************************************************)
(* State.                                                                  *)
(***************************************************************************)
VARIABLES
    mode,           \* which component this behaviour exercises
    findings_in,    \* deduplicate_findings: the argument `findings`
    dedup_out,      \* deduplicate_findings: the outcome, or NotRun
    inline_out,     \* _run_analysis_inline: the outcome of its deduplication, or NotRun
    patch,          \* the patch text, as its lines patch.split('\n')
    pos,            \* parse_patch: lines consumed by the for loop
    parse_pc,       \* parse_patch: "loop", then "returned"
    hunks,          \* parse_patch: hunks
    added_lines,    \* parse_patch: added_lines
    removed_lines,  \* parse_patch: removed_lines
    current_hunk,   \* parse_patch: current_hunk (<<>> is None)
    old_line_no,    \* parse_patch: old_line_no
    new_line_no,    \* parse_patch: new_line_no
    cf_pos,         \* _check_file: lines consumed by the for loop
    cf_pc,          \* _check_file: "idle", "loop", then "returned"
    line_number,    \* _check_file: line_number
    checked,        \* _check_file: the (line_number, code) pairs given to the checks
    formatted,      \* format_hunk_context: the text made of each parsed hunk, by line
    enable_background_tasks,  \* settings.enable_background_tasks
    github,         \* credentials of the project: "pat" (owner token) or "app"
    analyses_used,  \* UsageTracking.analyses_used of the project owner
    analyses_limit, \* UsageTracking.analyses_limit of the project owner
    status,         \* AnalysisRun.status ("none": the run is not created yet)
    error_message,  \* AnalysisRun.error_message
    risk_score,     \* AnalysisRun.risk_score
    pr_summary,     \* AnalysisRun.pr_summary
    stored,         \* the Finding rows of the run, in insertion order
    queue,          \* queued analyze_pr_task messages: retries -> how many
    execs,          \* the executions of the pipeline in progress
    rerun_pc,       \* rerun_analysis: "idle", or "queue" after its commit
    reruns,         \* rerun requests accepted so far
    faults,         \* faults of the collaborators injected so far
    response,       \* the last HTTP response of the API
    enabled_rules,  \* AnalyzerService.enabled_rules
    rule_input,     \* _check_file: the (line_number, code) pairs of the added lines
    rule_pos,       \* _check_file: added lines the checks have run on
    rule_pc,        \* _check_file: "idle", "loop", then "returned"
    file_findings,  \* _check_file: findings
    provider,       \* LLMService.provider (the preferred provider)
    use_groq,       \* LLMService.use_groq
    use_openai,     \* LLMService.use_openai
    use_anthropic,  \* LLMService.use_anthropic
    use_google,     \* LLMService.use_google
    call_site,      \* which method makes the LLM call: "file", "cross_file" or "raw"
    called,         \* the provider the call site chose ("none" before the choice)
    call_pc,        \* the call: "idle", "select", "attempt", "returned" or "raised"
    retry_count,    \* _call_<provider>: retry_count
    attempts,       \* requests sent to the provider's API by this call
    slept,          \* the time.sleep durations of this call, in order
    last_error,     \* the exception of the last request (NoError if it succeeded)
    diff_data,      \* LLMService.analyze_diff: the file changes of the pull request
    ad_pos,         \* analyze_diff: files of files_to_analyze the loop has handled
    ad_pc,          \* analyze_diff: "idle", "files", "cross_file", then "returned"
    ad_outcomes,    \* what each _analyze_file_with_llm call did: "findings", "empty", "raised"
    cross_outcome,  \* what the cross-file analysis did ("none": not called)
    llm_findings,   \* analyze_diff: findings
    llm_text,       \* _parse_llm_response: response, as its lines
    plr_filename,   \* _parse_llm_response: filename
    plr_data,       \* _parse_llm_response: data, the decoded JSON array
    plr_idx,        \* _parse_llm_response: items the for loop has handled
    plr_pc,         \* _parse_llm_response: "idle", "start", "loop", "except", "returned", "raised"
    plr_exc,        \* _parse_llm_response: the exception raised inside the try
    plr_findings,   \* _parse_llm_response: findings
    plr_dedup,      \* deduplicate_findings applied to the parsed findings, or NotRun
    rs_files,       \* compute_risk_score: diff_data
    rs_findings,    \* compute_risk_score: findings
    rs_reply,       \* compute_risk_score: what the AI adjustment request does
    rs_pc,          \* compute_risk_score: "idle", "start", "ai", "score", "returned", "raised"
    rs_heuristic,   \* compute_risk_score: heuristic_score
    rs_adjustment,  \* compute_risk_score: ai_adjustment, in halves
    rs_explanation, \* compute_risk_score: explanation
    rs_result,      \* compute_risk_score: the dict returned (score, label, ...)
    cl_available,   \* SemanticSearchService.is_available()
    cl_findings,    \* analyze_finding_patterns: findings (those with an embedding)
    cl_min_similarity, \* analyze_finding_patterns: min_similarity, in hundredths
    cl_i,           \* analyze_finding_patterns: findings the outer loop has handled
    cl_pc,          \* analyze_finding_patterns: "idle", "start", "loop", "returned"
    cl_processed,   \* analyze_finding_patterns: processed
    cl_clusters,    \* analyze_finding_patterns: clusters, as (title, members) in insertion order
    cl_formed,      \* the lists `cluster` of the outer iterations that kept theirs, in order
    cl_result       \* analyze_finding_patterns: recurring_issues of the dict returned

dedupVars == <<findings_in, dedup_out, inline_out>>
parseVars == <<pos, parse_pc, hunks, added_lines, removed_lines, current_hunk,
               old_line_no, new_line_no>>
checkVars == <<cf_pos, cf_pc, line_number, checked>>
diffVars == <<patch, parseVars, checkVars, formatted>>
runVars == <<status, error_message, risk_score, pr_summary, stored>>
envVars == <<enable_background_tasks, github, analyses_limit>>
pipeVars == <<envVars, analyses_used, runVars, queue, execs, rerun_pc, reruns,
              faults, response>>
ruleVars == <<enabled_rules, rule_input, rule_pos, rule_pc, file_findings>>
credVars == <<provider, use_groq, use_openai, use_anthropic, use_google>>
callVars == <<call_site, called, call_pc, retry_count, attempts, slept, last_error>>
adVars == <<diff_data, ad_pos, ad_pc, ad_outcomes, cross_outcome, llm_findings>>
plrVars == <<llm_text, plr_filename, plr_data, plr_idx, plr_pc, plr_exc, plr_findings,
             plr_dedup>>
riskVars == <<rs_files, rs_findings, rs_reply, rs_pc, rs_heuristic, rs_adjustment,
              rs_explanation, rs_result>>
clusterVars == <<cl_available, cl_findings, cl_min_similarity, cl_i, cl_pc, cl_processed,
                 cl_clusters, cl_formed, cl_result>>
extVars == <<plrVars, riskVars, clusterVars>>
svcVars == <<ruleVars, credVars, callVars, adVars, extVars>>
vars == <<mode, dedupVars, diffVars, pipeVars, svcVars>>

NotRun == [raised |-> FALSE, value |-> <<>>, ran |-> FALSE]

(***************************************************************************)
(* app/models.py: FindingSeverity, FindingCategory.                        *)
(***************************************************************************)
FindingSeverity == {"critical", "high", "medium", "low", "info"}

FindingCategory == {"bug", "security"}

FilePaths == {"app.py"}

LineNumbers == {0, 10}

(***************************************************************************)
(* A candidate finding.  The description is the candidate's own text       *)
(* (base, the position of the candidate in the input) followed by the      *)
(* "Additional concerns: ..." notes appended by merges; a note is the set   *)
(* of category names it lists (Python iterates the set in no fixed order). *)
(***************************************************************************)
MkFinding(fp, ln, sev, cat, i) ==
    [file_path |-> fp, line_number |-> ln, severity |-> sev, category |-> cat,
     description |-> [base |-> i, notes |-> <<>>]]

(***************************************************************************)
(* app/tasks/analysis.py: deduplicate_findings.                            *)
(***************************************************************************)
\* key = (finding["file_path"], finding.get("line_number", 0))
FindingKey_mutant_with_severity(f) == <<f.file_path, f.line_number, f.severity>>
FindingKey(f) == <<f.file_path, f.line_number>>

\* the keys of `grouped` in insertion order (first occurrence in the input)
RECURSIVE GroupedKeys(_)
GroupedKeys(fs) ==
    IF fs = <<>> THEN <<>>
    ELSE LET front == GroupedKeys(SubSeq(fs, 1, Len(fs) - 1))
             k == FindingKey(fs[Len(fs)])
         IN IF \E j \in 1..Len(front) : front[j] = k THEN front
            ELSE Append(front, k)

\* grouped[key]: the candidates of that key, in input order
GroupOf(fs, k) == SelectSeq(fs, LAMBDA f : FindingKey(f) = k)

\* the severity_order dict of deduplicate_findings: no entry for INFO
severity_order_mutant_reversed ==
    [critical |-> 3, high |-> 2, medium |-> 1, low |-> 0]
severity_order == [critical |-> 0, high |-> 1, medium |-> 2, low |-> 3]

\* severity_order[f["severity"]] raises KeyError when the key is absent
SeverityKeyRaises(f) == f.severity \notin DOMAIN severity_order

\* sorted(group, key=...): a stable sort, as insertion from the left
RECURSIVE InsertSorted(_, _)
InsertSorted(sorted, f) ==
    IF sorted = <<>> THEN <<f>>
    ELSE IF severity_order[sorted[Len(sorted)].severity] <= severity_order[f.severity]
         THEN Append(sorted, f)
         ELSE Append(InsertSorted(SubSeq(sorted, 1, Len(sorted) - 1), f),
                     sorted[Len(sorted)])

RECURSIVE SortedBySeverity(_)
SortedBySeverity(group) ==
    IF group = <<>> THEN <<>>
    ELSE InsertSorted(SortedBySeverity(SubSeq(group, 1, Len(group) - 1)),
                      group[Len(group)])

\* the merge of a group of two or more candidates
MergeGroup(group) ==
    LET merged == SortedBySeverity(group)[1]
        categories == {group[j].category : j \in 1..Len(group)}
    IN IF Cardinality(categories) > 1
       THEN [merged EXCEPT !.description.notes =
                Append(@, categories \ {merged.category})]
       ELSE merged

DedupGroup_mutant_always_annotates(group) ==
    [(IF Len(group) = 1 THEN group[1] ELSE MergeGroup(group))
        EXCEPT !.description.notes = Append(@, {})]
DedupGroup(group) == IF Len(group) = 1 THEN group[1] ELSE MergeGroup(group)

GroupRaises(group) ==
    Len(group) > 1 /\ \E j \in 1..Len(group) : SeverityKeyRaises(group[j])

deduplicate_findings(fs) ==
    LET keys == GroupedKeys(fs)
    IN IF \E j \in 1..Len(keys) : GroupRaises(GroupOf(fs, keys[j]))
       THEN [raised |-> TRUE, value |-> <<>>, ran |-> TRUE]
       ELSE [raised |-> FALSE,
             value |-> [j \in 1..Len(keys) |-> DedupGroup(GroupOf(fs, keys[j]))],
             ran |-> TRUE]

(***************************************************************************)
(* app/api/analysis.py: the deduplication block of _run_analysis_inline.   *)
(***************************************************************************)
\* severity_order.get(f["severity"], 4)
inline_severity_key(f) ==
    IF f.severity \in DOMAIN severity_order THEN severity_order[f.severity] ELSE 4

RECURSIVE InlineInsertSorted(_, _)
InlineInsertSorted(sorted, f) ==
    IF sorted = <<>> THEN <<f>>
    ELSE IF inline_severity_key(sorted[Len(sorted)]) <= inline_severity_key(f)
         THEN Append(sorted, f)
         ELSE Append(InlineInsertSorted(SubSeq(sorted, 1, Len(sorted) - 1), f),
                     sorted[Len(sorted)])

RECURSIVE InlineSortedBySeverity(_)
InlineSortedBySeverity(group) ==
    IF group = <<>> THEN <<>>
    ELSE InlineInsertSorted(InlineSortedBySeverity(SubSeq(group, 1, Len(group) - 1)),
                            group[Len(group)])

InlineMergeGroup(group) ==
    LET merged == InlineSortedBySeverity(group)[1]
        categories == {group[j].category : j \in 1..Len(group)}
    IN IF Cardinality(categories) > 1
       THEN [merged EXCEPT !.description.notes =
                Append(@, categories \ {merged.category})]
       ELSE merged

inline_deduplicate(fs) ==
    LET keys == GroupedKeys(fs)
    IN [raised |-> FALSE,
        value |-> [j \in 1..Len(keys) |->
                      IF Len(GroupOf(fs, keys[j])) = 1 THEN GroupOf(fs, keys[j])[1]
                      ELSE InlineMergeGroup(GroupOf(fs, keys[j]))],
        ran |-> TRUE]

(***************************************************************************)
(* Inputs of the deduplicator: every list of up to MaxFindings candidates. *)
(***************************************************************************)
Shapes == FilePaths \X LineNumbers \X FindingSeverity \X FindingCategory

ShapeLists == UNION {[1..n -> Shapes] : n \in 0..MaxFindings}

FindingList(sh) ==
    [i \in 1..Len(sh) |-> MkFinding(sh[i][1], sh[i][2], sh[i][3], sh[i][4], i)]

(***************************************************************************)
(* The per-run coordinator: state of one analysis run and its environment. *)
(***************************************************************************)
\* app/tasks/analysis.py: @celery_app.task(bind=True, max_retries=3)
max_retries == 3

\* app/services/stripe_service.py: PRICING[SubscriptionTier.FREE]["analyses_limit"]
FreeAnalysesLimit == 10

\* PRICING[SubscriptionTier.ENTERPRISE]["analyses_limit"]
Unlimited == -1

ExecIds == 1..MaxExecs

IdleExec ==
    [pc |-> "idle", kind |-> "none", retries |-> 0, failed |-> {}, exc |-> "None",
     llm_calls |-> {}]

EmptyQueue == [r \in 0..max_retries |-> 0]

NoResponse == [op |-> "none", code |-> 0]

PipeIdle ==
    /\ enable_background_tasks = FALSE
    /\ github = "pat"
    /\ analyses_used = 0
    /\ analyses_limit = FreeAnalysesLimit
    /\ status = "none"
    /\ error_message = "None"
    /\ risk_score = "None"
    /\ pr_summary = "None"
    /\ stored = <<>>
    /\ queue = EmptyQueue
    /\ execs = [e \in ExecIds |-> IdleExec]
    /\ rerun_pc = "idle"
    /\ reruns = 0
    /\ faults = 0
    /\ response = NoResponse

\* format_hunk_context has not been called
NotFormatted == [ran |-> FALSE, highlight_line |-> 0, out |-> <<>>]

RuleIdle ==
    /\ enabled_rules = {}
    /\ rule_input = <<>>
    /\ rule_pos = 0
    /\ rule_pc = "idle"
    /\ file_findings = <<>>

NoError == [class |-> "None", text |-> ""]

CredIdle ==
    /\ provider = "groq"
    /\ use_groq = FALSE
    /\ use_openai = FALSE
    /\ use_anthropic = FALSE
    /\ use_google = FALSE

CallIdle ==
    /\ call_site = "file"
    /\ called = "none"
    /\ call_pc = "idle"
    /\ retry_count = 0
    /\ attempts = 0
    /\ slept = <<>>
    /\ last_error = NoError

AnalyzeIdle ==
    /\ diff_data = <<>>
    /\ ad_pos = 0
    /\ ad_pc = "idle"
    /\ ad_outcomes = <<>>
    /\ cross_outcome = "none"
    /\ llm_findings = <<>>

ParseIdle ==
    /\ llm_text = <<>>
    /\ plr_filename = ""
    /\ plr_data = <<>>
    /\ plr_idx = 0
    /\ plr_pc = "idle"
    /\ plr_exc = "None"
    /\ plr_findings = <<>>
    /\ plr_dedup = NotRun

NoReply == [kind |-> "none", ai_adjustment |-> [k |-> "absent", halves |-> 0],
            explanation |-> ""]

NoResult == [score |-> -1, label |-> "", explanation |-> "", ai_adjustment |-> 0]

RiskIdle ==
    /\ rs_files = <<>>
    /\ rs_findings = <<>>
    /\ rs_reply = NoReply
    /\ rs_pc = "idle"
    /\ rs_heuristic = 0
    /\ rs_adjustment = 0
    /\ rs_explanation = ""
    /\ rs_result = NoResult

ClusterIdle ==
    /\ cl_available = FALSE
    /\ cl_findings = <<>>
    /\ cl_min_similarity = 0
    /\ cl_i = 0
    /\ cl_pc = "idle"
    /\ cl_processed = {}
    /\ cl_clusters = <<>>
    /\ cl_formed = <<>>
    /\ cl_result = <<>>

ExtIdle == ParseIdle /\ RiskIdle /\ ClusterIdle

SvcIdle == RuleIdle /\ CredIdle /\ CallIdle /\ AnalyzeIdle /\ ExtIdle

DedupIdle ==
    /\ findings_in = <<>>
    /\ dedup_out = NotRun
    /\ inline_out = NotRun

DiffIdle ==
    /\ patch = <<>>
    /\ pos = 0
    /\ parse_pc = "idle"
    /\ hunks = <<>>
    /\ added_lines = <<>>
    /\ removed_lines = <<>>
    /\ current_hunk = <<>>
    /\ old_line_no = 0
    /\ new_line_no = 0
    /\ cf_pos = 0
    /\ cf_pc = "idle"
    /\ line_number = 0
    /\ checked = <<>>
    /\ formatted = NotFormatted

InitDedup ==
    /\ mode = "dedup"
    /\ \E sh \in ShapeLists : findings_in = FindingList(sh)
    /\ dedup_out = NotRun
    /\ inline_out = NotRun
    /\ DiffIdle
    /\ PipeIdle
    /\ SvcIdle

\* a call deduplicate_findings(findings)
Deduplicate ==
    /\ mode = "dedup"
    /\ ~dedup_out.ran
    /\ dedup_out' = deduplicate_findings(findings_in)
    /\ UNCHANGED <<mode, findings_in, inline_out, diffVars, pipeVars, svcVars>>

\* the deduplication block of _run_analysis_inline on the same findings
DeduplicateInline ==
    /\ mode = "dedup"
    /\ ~inline_out.ran
    /\ inline_out' = inline_deduplicate(findings_in)
    /\ UNCHANGED <<mode, findings_in, dedup_out, diffVars, pipeVars, svcVars>>

\* the caller passes the deduplicated list on (a new call starts)
DedupReturn ==
    /\ mode = "dedup"
    /\ dedup_out.ran
    /\ ~dedup_out.raised
    /\ findings_in' = dedup_out.value
    /\ dedup_out' = NotRun
    /\ inline_out' = NotRun
    /\ UNCHANGED <<mode, diffVars, pipeVars, svcVars>>

NextDedup == Deduplicate \/ DeduplicateInline \/ DedupReturn

SpecDedup == InitDedup /\ [][NextDedup]_vars

(***************************************************************************)
(* Claims about deduplicate_findings (checked under SpecDedup).            *)
(***************************************************************************)
\* the fixed order critical > high > medium > low > info of the data model
SeverityRank == [critical |-> 0, high |-> 1, medium |-> 2, low |-> 3, info |-> 4]

InputKeys == {FindingKey(findings_in[i]) : i \in 1..Len(findings_in)}

OutputAt(k) == {j \in 1..Len(dedup_out.value) : FindingKey(dedup_out.value[j]) = k}

\* C2: for every input list, the output of deduplicate_findings holds exactly
\* one finding for each distinct (file_path, line_number) key of the input and
\* no finding for any other key.
C2_OneFindingPerKey ==
    dedup_out.ran =>
        /\ ~dedup_out.raised
        /\ \A k \in InputKeys : Cardinality(OutputAt(k)) = 1
        /\ \A j \in 1..Len(dedup_out.value) :
               FindingKey(dedup_out.value[j]) \in InputKeys

\* C3: for every group of candidates sharing a key, severities drawn from the
\* full set critical, high, medium, low, info, the merged finding's severity is
\* the most severe severity present in the group.
C3_MergedSeverityIsMostSevere ==
    dedup_out.ran =>
        /\ ~dedup_out.raised
        /\ \A k \in InputKeys : \A j \in OutputAt(k) :
               \A i \in 1..Len(findings_in) :
                   FindingKey(findings_in[i]) = k =>
                       SeverityRank[dedup_out.value[j].severity]
                           <= SeverityRank[findings_in[i].severity]

(***************************************************************************)
(* Patch lines.  A patch is the list patch.split('\n'); the lines of the   *)
(* model are concrete texts, and the regular expressions and prefix tests  *)
(* of the code are tabulated on them.                                      *)
(***************************************************************************)
HeaderFull == "@@ -1,2 +1,3 @@"

HeaderNoCounts == "@@ -4 +7 @@ def f():"

HeaderMalformed == "@@ malformed"

HeaderUnclosed == "@@ -1,2 +9,3"

PatchLines ==
    {HeaderFull, HeaderNoCounts, HeaderMalformed, HeaderUnclosed,
     "+a", "+b", "-x", " c", ""}

\* line.startswith('+'), line.startswith('-'), line.startswith(' '),
\* line.startswith('@@')
StartsWithPlus(line) == line \in {"+a", "+b"}

StartsWithMinus(line) == line \in {"-x"}

StartsWithSpace(line) == line \in {" c"}

StartsWithAtAt(line) ==
    line \in {HeaderFull, HeaderNoCounts, HeaderMalformed, HeaderUnclosed}

\* line[1:]
StripPrefix(line) ==
    CASE line = "+a" -> "a"
      [] line = "+b" -> "b"
      [] line = "-x" -> "x"
      [] line = " c" -> "c"
      [] OTHER -> ""

\* re.match(r'^@@\s+-(\d+)(?:,(\d+))?\s+\+(\d+)(?:,(\d+))?\s+@@', line):
\* <<>> when there is no match, else the groups with int(group or 1) applied
hunk_match_mutant_unclosed(line) ==
    CASE line = HeaderFull ->
            <<[old_start |-> 1, old_count |-> 2, new_start |-> 1, new_count |-> 3]>>
      [] line = HeaderNoCounts ->
            <<[old_start |-> 4, old_count |-> 1, new_start |-> 7, new_count |-> 1]>>
      [] line = HeaderUnclosed ->
            <<[old_start |-> 1, old_count |-> 2, new_start |-> 9, new_count |-> 3]>>
      [] OTHER -> <<>>
hunk_match(line) ==
    CASE line = HeaderFull ->
            <<[old_start |-> 1, old_count |-> 2, new_start |-> 1, new_count |-> 3]>>
      [] line = HeaderNoCounts ->
            <<[old_start |-> 4, old_count |-> 1, new_start |-> 7, new_count |-> 1]>>
      [] OTHER -> <<>>

\* re.search(r'\+(\d+)', line) of _check_file: <<>> or the number found
plus_number_match(line) ==
    CASE line = HeaderFull -> <<1>>
      [] line = HeaderNoCounts -> <<7>>
      [] line = HeaderUnclosed -> <<9>>
      [] OTHER -> <<>>

Patches == UNION {[1..n -> PatchLines] : n \in 0..MaxPatchLen}

(***************************************************************************)
(* app/services/diff_parser.py: DiffParser.parse_patch, one loop           *)
(* iteration per step.                                                     *)
(***************************************************************************)
NewHunk(m) ==
    [old_start |-> m.old_start, old_count |-> m.old_count,
     new_start |-> m.new_start, new_count |-> m.new_count,
     added |-> <<>>, removed |-> <<>>, context |-> <<>>]

\* d[k] = v on a dict
DictSet(d, k, v) == [x \in (DOMAIN d) \cup {k} |-> IF x = k THEN v ELSE d[x]]

\* new_line_no after a body line of an open hunk
NewLineAfter_mutant_no_advance(line, n) == n
NewLineAfter_mutant_plus_only(line, n) == IF StartsWithPlus(line) THEN n + 1 ELSE n
NewLineAfter(line, n) ==
    IF StartsWithPlus(line) \/ (~StartsWithMinus(line) /\ StartsWithSpace(line))
    THEN n + 1 ELSE n

\* old_line_no after a body line of an open hunk
OldLineAfter(line, n) ==
    IF ~StartsWithPlus(line) /\ (StartsWithMinus(line) \/ StartsWithSpace(line))
    THEN n + 1 ELSE n

\* the `if not patch` early return
ParseEmpty ==
    /\ mode = "diff"
    /\ parse_pc = "loop"
    /\ patch = <<>>
    /\ parse_pc' = "returned"
    /\ UNCHANGED <<mode, dedupVars, pipeVars, svcVars, formatted, patch, pos, hunks, added_lines, removed_lines,
                   current_hunk, old_line_no, new_line_no, checkVars>>

\* a loop iteration on a line that matches the hunk header pattern
ParseHeader ==
    /\ mode = "diff"
    /\ parse_pc = "loop"
    /\ pos < Len(patch)
    /\ LET line == patch[pos + 1]
           m == hunk_match(line)
       IN /\ m # <<>>
          /\ hunks' = IF current_hunk # <<>> THEN Append(hunks, current_hunk[1])
                      ELSE hunks
          /\ old_line_no' = m[1].old_start
          /\ new_line_no' = m[1].new_start
          /\ current_hunk' = <<NewHunk(m[1])>>
    /\ pos' = pos + 1
    /\ UNCHANGED <<mode, dedupVars, pipeVars, svcVars, formatted, patch, parse_pc, added_lines, removed_lines,
                   checkVars>>

\* a loop iteration on any other line while no hunk is open
ParseSkip ==
    /\ mode = "diff"
    /\ parse_pc = "loop"
    /\ pos < Len(patch)
    /\ hunk_match(patch[pos + 1]) = <<>>
    /\ current_hunk = <<>>
    /\ pos' = pos + 1
    /\ UNCHANGED <<mode, dedupVars, pipeVars, svcVars, formatted, patch, parse_pc, hunks, added_lines,
                   removed_lines, current_hunk, old_line_no, new_line_no, checkVars>>

\* a loop iteration on a body line of the open hunk
ParseBody ==
    /\ mode = "diff"
    /\ parse_pc = "loop"
    /\ pos < Len(patch)
    /\ hunk_match(patch[pos + 1]) = <<>>
    /\ current_hunk # <<>>
    /\ LET line == patch[pos + 1]
           code == StripPrefix(line)
           h == current_hunk[1]
       IN /\ IF StartsWithPlus(line)
             THEN /\ added_lines' = DictSet(added_lines, new_line_no, code)
                  /\ removed_lines' = removed_lines
                  /\ current_hunk' =
                        <<[h EXCEPT !.added = Append(@, [line_number |-> new_line_no,
                                                         code |-> code]),
                                    !.context = Append(@, line)]>>
             ELSE IF StartsWithMinus(line)
             THEN /\ removed_lines' = DictSet(removed_lines, old_line_no, code)
                  /\ added_lines' = added_lines
                  /\ current_hunk' =
                        <<[h EXCEPT !.removed = Append(@, [line_number |-> old_line_no,
                                                           code |-> code]),
                                    !.context = Append(@, line)]>>
             ELSE IF StartsWithSpace(line)
             THEN /\ current_hunk' = <<[h EXCEPT !.context = Append(@, line)]>>
                  /\ UNCHANGED <<added_lines, removed_lines>>
             ELSE UNCHANGED <<added_lines, removed_lines, current_hunk>>
          /\ new_line_no' = NewLineAfter(line, new_line_no)
          /\ old_line_no' = OldLineAfter(line, old_line_no)
    /\ pos' = pos + 1
    /\ UNCHANGED <<mode, dedupVars, pipeVars, svcVars, formatted, patch, parse_pc, hunks, checkVars>>

\* the end of the loop: the last hunk is appended and the result returned
ParseReturn ==
    /\ mode = "diff"
    /\ parse_pc = "loop"
    /\ patch # <<>>
    /\ pos = Len(patch)
    /\ hunks' = IF current_hunk # <<>> THEN Append(hunks, current_hunk[1]) ELSE hunks
    /\ parse_pc' = "returned"
    /\ UNCHANGED <<mode, dedupVars, pipeVars, svcVars, formatted, patch, pos, added_lines, removed_lines,
                   current_hunk, old_line_no, new_line_no, checkVars>>

(***************************************************************************)
(* app/services/analyzer_service.py: AnalyzerService.analyze_diff and      *)
(* _check_file on the same patch, one loop iteration per step.             *)
(***************************************************************************)
\* analyze_diff: `if not patch: continue`, else _check_file starts
CheckStart ==
    /\ mode = "diff"
    /\ parse_pc = "returned"
    /\ cf_pc = "idle"
    /\ cf_pc' = IF patch = <<>> THEN "returned" ELSE "loop"
    /\ UNCHANGED <<mode, dedupVars, pipeVars, svcVars, formatted, patch, parseVars, cf_pos, line_number, checked>>

\* _check_file: a line starting with '@@'
CheckHeader ==
    /\ mode = "diff"
    /\ cf_pc = "loop"
    /\ cf_pos < Len(patch)
    /\ LET line == patch[cf_pos + 1]
           match == plus_number_match(line)
       IN /\ StartsWithAtAt(line)
          /\ line_number' = IF match # <<>> THEN match[1] ELSE line_number
    /\ cf_pos' = cf_pos + 1
    /\ UNCHANGED <<mode, dedupVars, pipeVars, svcVars, formatted, patch, parseVars, cf_pc, checked>>

\* _check_file: a line starting with '+': the checks run on (line_number, code)
CheckAdded ==
    /\ mode = "diff"
    /\ cf_pc = "loop"
    /\ cf_pos < Len(patch)
    /\ LET line == patch[cf_pos + 1]
       IN /\ ~StartsWithAtAt(line)
          /\ StartsWithPlus(line)
          /\ line_number' = line_number + 1
          /\ checked' = Append(checked, [line_number |-> line_number + 1,
                                         code |-> StripPrefix(line)])
    /\ cf_pos' = cf_pos + 1
    /\ UNCHANGED <<mode, dedupVars, pipeVars, svcVars, formatted, patch, parseVars, cf_pc>>

\* _check_file: any other line
CheckOther ==
    /\ mode = "diff"
    /\ cf_pc = "loop"
    /\ cf_pos < Len(patch)
    /\ LET line == patch[cf_pos + 1]
       IN ~StartsWithAtAt(line) /\ ~StartsWithPlus(line)
    /\ cf_pos' = cf_pos + 1
    /\ UNCHANGED <<mode, dedupVars, pipeVars, svcVars, formatted, patch, parseVars, cf_pc, line_number, checked>>

\* _check_file: return findings
CheckReturn ==
    /\ mode = "diff"
    /\ cf_pc = "loop"
    /\ cf_pos = Len(patch)
    /\ cf_pc' = "returned"
    /\ UNCHANGED <<mode, dedupVars, pipeVars, svcVars, formatted, patch, parseVars, cf_pos, line_number, checked>>

(***************************************************************************)
(* app/services/diff_parser.py: DiffParser.format_hunk_context, applied to *)
(* each hunk parse_patch returned.  The text is kept as its list of lines  *)
(* (the argument of '\n'.join).                                            *)
(***************************************************************************)
\* f"@@ -{hunk['old_start']},{hunk['old_count']} +{hunk['new_start']},{hunk['new_count']} @@"
format_hunk_header_mutant_bare_starts(hunk) ==
    "@@ -" \o ToString(hunk.old_start) \o " +" \o ToString(hunk.new_start) \o " @@"
format_hunk_header(hunk) ==
    "@@ -" \o ToString(hunk.old_start) \o "," \o ToString(hunk.old_count)
        \o " +" \o ToString(hunk.new_start) \o "," \o ToString(hunk.new_count) \o " @@"

\* highlight_line = 0 stands for None (both are falsy in `if highlight_line`)
format_hunk_context(hunk, highlight_line) ==
    <<format_hunk_header(hunk)>> \o
    [j \in 1..Len(hunk.context) |->
        IF highlight_line # 0 /\ StartsWithPlus(hunk.context[j])
        THEN ">>> " \o hunk.context[j]
        ELSE hunk.context[j]]

\* the caller formats every hunk of the parsed patch
FormatHunks ==
    /\ mode = "diff"
    /\ parse_pc = "returned"
    /\ ~formatted.ran
    /\ \E highlight_line \in {0, 1} :
          formatted' = [ran |-> TRUE, highlight_line |-> highlight_line,
                        out |-> [k \in 1..Len(hunks) |->
                                    format_hunk_context(hunks[k], highlight_line)]]
    /\ UNCHANGED <<mode, dedupVars, pipeVars, svcVars, patch, parseVars, checkVars>>

InitDiff ==
    /\ mode = "diff"
    /\ DedupIdle
    /\ PipeIdle
    /\ SvcIdle
    /\ patch \in Patches
    /\ pos = 0
    /\ parse_pc = "loop"
    /\ hunks = <<>>
    /\ added_lines = <<>>
    /\ removed_lines = <<>>
    /\ current_hunk = <<>>
    /\ old_line_no = 0
    /\ new_line_no = 0
    /\ cf_pos = 0
    /\ cf_pc = "idle"
    /\ line_number = 0
    /\ checked = <<>>
    /\ formatted = NotFormatted

NextDiff ==
    \/ ParseEmpty
    \/ ParseHeader
    \/ ParseSkip
    \/ ParseBody
    \/ ParseReturn
    \/ CheckStart
    \/ CheckHeader
    \/ CheckAdded
    \/ CheckOther
    \/ CheckReturn
    \/ FormatHunks

SpecDiff == InitDiff /\ [][NextDiff]_vars

(***************************************************************************)
(* app/services/analyzer_service.py: the enabled rules and the checks that *)
(* _check_file runs on each added line.  Four of the ten checks are        *)
(* modelled, in the order of the code; the regular expressions are         *)
(* tabulated on concrete code lines.                                       *)
(***************************************************************************)
\* the checks of _check_file, in the order it runs them
ImplementedRules ==
    <<"no_console_log", "no_eval", "magic_numbers", "missing_error_handling">>

\* _default_rules(): it also lists ids that no check implements
default_rules ==
    {"no_console_log", "no_eval", "magic_numbers", "missing_error_handling",
     "unused_variables"}

\* rule ids a project configuration may name
RuleIds == default_rules \cup {"no_such_rule"}

CodeLines ==
    {"eval(userInput)", "console.log(eval(x))", "timeout = 3600", "MAX=3600",
     "n = int(s)"}

\* the pattern tests of _check_console_log, _check_eval, _check_magic_numbers
\* and _check_missing_error_handling
RuleMatches(rule, code) ==
    CASE rule = "no_console_log" -> code = "console.log(eval(x))"
      [] rule = "no_eval" -> code \in {"eval(userInput)", "console.log(eval(x))"}
      [] rule = "magic_numbers" -> code = "timeout = 3600"
      [] rule = "missing_error_handling" -> code = "n = int(s)"
      [] OTHER -> FALSE

RuleSeverity ==
    [no_console_log |-> "low", no_eval |-> "critical", magic_numbers |-> "low",
     missing_error_handling |-> "medium"]

RuleCategory ==
    [no_console_log |-> "style", no_eval |-> "security",
     magic_numbers |-> "best_practice", missing_error_handling |-> "bug"]

\* self._check_<rule>(filename, line_number, code): <<>> is None
RuleCheck(rule, ln, code) ==
    IF RuleMatches(rule, code)
    THEN <<[file_path |-> "app.py", line_number |-> ln,
            severity |-> RuleSeverity[rule], category |-> RuleCategory[rule],
            rule_id |-> rule]>>
    ELSE <<>>

\* `if "<rule>" in self.enabled_rules`
RuleEnabled_mutant_eval_always(rule, enabled) == rule = "no_eval" \/ rule \in enabled
RuleEnabled(rule, enabled) == rule \in enabled

\* the findings the block of checks appends for one added line
RECURSIVE RunChecks(_, _, _, _)
RunChecks(n, enabled, ln, code) ==
    IF n = 0 THEN <<>>
    ELSE RunChecks(n - 1, enabled, ln, code) \o
         (IF RuleEnabled(ImplementedRules[n], enabled)
          THEN RuleCheck(ImplementedRules[n], ln, code)
          ELSE <<>>)

\* the added lines of a patch, numbered as _check_file numbers them
RuleInputs ==
    UNION {[1..n -> CodeLines] : n \in 0..MaxRuleLines}

\* AnalyzerService(project_config): enabled_rules from the configuration, or
\* the default rules when it has none
InitRules ==
    /\ mode = "rules"
    /\ DedupIdle
    /\ DiffIdle
    /\ PipeIdle
    /\ CredIdle
    /\ CallIdle
    /\ AnalyzeIdle
    /\ ExtIdle
    /\ \E config \in {<<>>} \cup {<<E>> : E \in SUBSET RuleIds} :
          enabled_rules = IF config = <<>> THEN default_rules ELSE config[1]
    /\ \E codes \in RuleInputs :
          rule_input = [i \in 1..Len(codes) |-> [line_number |-> i, code |-> codes[i]]]
    /\ rule_pos = 0
    /\ rule_pc = "loop"
    /\ file_findings = <<>>

\* one iteration of the loop on an added line: every enabled check runs
RulesCheckLine ==
    /\ mode = "rules"
    /\ rule_pc = "loop"
    /\ rule_pos < Len(rule_input)
    /\ LET p == rule_input[rule_pos + 1]
       IN file_findings' = file_findings \o
              RunChecks(Len(ImplementedRules), enabled_rules, p.line_number, p.code)
    /\ rule_pos' = rule_pos + 1
    /\ UNCHANGED <<mode, dedupVars, diffVars, pipeVars, credVars, callVars, adVars, extVars, enabled_rules, rule_input, rule_pc>>

\* return findings
RulesReturn ==
    /\ mode = "rules"
    /\ rule_pc = "loop"
    /\ rule_pos = Len(rule_input)
    /\ rule_pc' = "returned"
    /\ UNCHANGED <<mode, dedupVars, diffVars, pipeVars, credVars, callVars, adVars, extVars, enabled_rules, rule_input, rule_pos,
                   file_findings>>

NextRules == RulesCheckLine \/ RulesReturn

SpecRules == InitRules /\ [][NextRules]_vars

(***************************************************************************)
(* app/services/llm_service.py: one LLM call from a call site: the choice  *)
(* of the provider, then the request(s) to it.  _call_groq, _call_openai   *)
(* and _call_anthropic loop with retries; the raw call site sends one      *)
(* request; _call_google swallows its errors.                              *)
(***************************************************************************)
Providers == {"groq", "openai", "anthropic", "google"}

CallSites == {"file", "cross_file", "raw"}

\* max_retries of _call_openai, _call_anthropic and _call_groq
call_max_retries == 3

\* exceptions a provider's SDK raises, with the text str(e) gives
RateLimitErr == [class |-> "RateLimitError", text |-> "Rate limit reached"]

OverloadedErr == [class |-> "InternalServerError", text |-> "Overloaded"]

AuthErr == [class |-> "AuthenticationError", text |-> "Invalid API Key"]

GenerateErr == [class |-> "BadRequestError", text |-> "Failed to generate JSON"]

TokenLimitErr == [class |-> "BadRequestError", text |-> "Request exceeds token limit"]

ProviderErrors == {RateLimitErr, OverloadedErr, AuthErr, GenerateErr, TokenLimitErr}

\* `word in str(e).lower()`
Mentions(e, word) ==
    CASE word = "rate" -> e \in {RateLimitErr, GenerateErr}
      [] word = "limit" -> e \in {RateLimitErr, TokenLimitErr}
      [] word = "overloaded" -> e = OverloadedErr
      [] OTHER -> FALSE

\* _analyze_file_with_llm: the if/elif chain that picks the provider
file_provider_mutant_default_openai ==
    IF provider = "groq" /\ use_groq THEN "groq"
    ELSE IF provider = "anthropic" /\ use_anthropic THEN "anthropic"
    ELSE IF provider = "google" /\ use_google THEN "google"
    ELSE IF use_groq THEN "groq"
    ELSE IF use_anthropic THEN "anthropic"
    ELSE IF use_google THEN "google"
    ELSE "openai"

file_provider ==
    IF provider = "groq" /\ use_groq THEN "groq"
    ELSE IF provider = "anthropic" /\ use_anthropic THEN "anthropic"
    ELSE IF provider = "google" /\ use_google THEN "google"
    ELSE IF use_groq THEN "groq"
    ELSE IF use_openai THEN "openai"
    ELSE IF use_anthropic THEN "anthropic"
    ELSE IF use_google THEN "google"
    ELSE "no_provider"

\* _analyze_cross_file_impact: its chain
cross_file_provider ==
    IF provider = "groq" /\ use_groq THEN "groq"
    ELSE IF provider = "anthropic" /\ use_anthropic THEN "anthropic"
    ELSE IF use_groq THEN "groq"
    ELSE IF use_openai THEN "openai"
    ELSE IF use_anthropic THEN "anthropic"
    ELSE "no_provider"

\* _call_llm_raw: its chain
raw_provider ==
    IF provider = "groq" /\ use_groq THEN "groq"
    ELSE IF provider = "anthropic" /\ use_anthropic THEN "anthropic"
    ELSE IF use_groq THEN "groq"
    ELSE IF use_openai THEN "openai"
    ELSE IF use_google THEN "google"
    ELSE "no_provider"

SelectedProvider(site) ==
    CASE site = "file" -> file_provider
      [] site = "cross_file" -> cross_file_provider
      [] site = "raw" -> raw_provider

\* the except clauses of the retry loops: which exceptions count as a rate limit
Retryable(p, e) ==
    CASE p = "openai" -> e.class = "RateLimitError"
      [] p = "anthropic" -> Mentions(e, "rate") \/ Mentions(e, "overloaded")
      [] p = "groq" -> Mentions(e, "rate") \/ Mentions(e, "limit")
      [] OTHER -> FALSE

\* the call goes through a _call_<provider> method with a retry loop
HasRetryLoop(site, p) == site \in {"file", "cross_file"} /\ p \in {"groq", "openai", "anthropic"}

InitCall ==
    /\ mode = "call"
    /\ DedupIdle
    /\ DiffIdle
    /\ PipeIdle
    /\ RuleIdle
    /\ AnalyzeIdle
    /\ ExtIdle
    /\ provider \in Providers
    /\ use_groq \in BOOLEAN
    /\ use_openai \in BOOLEAN
    /\ use_anthropic \in BOOLEAN
    /\ use_google \in BOOLEAN
    /\ call_site \in CallSites
    /\ called = "none"
    /\ call_pc = "select"
    /\ retry_count = 0
    /\ attempts = 0
    /\ slept = <<>>
    /\ last_error = NoError

callOther == <<mode, dedupVars, diffVars, pipeVars, ruleVars, adVars, extVars, credVars,
               call_site>>

\* the if/elif chain of the call site; with no provider the method returns
\* its empty result
CallSelect ==
    /\ mode = "call"
    /\ call_pc = "select"
    /\ called' = SelectedProvider(call_site)
    /\ call_pc' = IF called' = "no_provider" THEN "returned" ELSE "attempt"
    /\ UNCHANGED <<callOther, retry_count, attempts, slept, last_error>>

\* a request that the provider answers
CallSucceeds ==
    /\ mode = "call"
    /\ call_pc = "attempt"
    /\ attempts' = attempts + 1
    /\ last_error' = NoError
    /\ call_pc' = "returned"
    /\ UNCHANGED <<callOther, called, retry_count, slept>>

\* a request that fails inside a retry loop with an exception its except
\* clause takes for a rate limit: retry_count += 1, then sleep and loop, or
\* re-raise when retry_count reached max_retries
CallFailsRetry ==
    /\ mode = "call"
    /\ call_pc = "attempt"
    /\ HasRetryLoop(call_site, called)
    /\ \E e \in ProviderErrors :
          /\ Retryable(called, e)
          /\ last_error' = e
    /\ attempts' = attempts + 1
    /\ retry_count' = retry_count + 1
    /\ IF retry_count + 1 < call_max_retries
       THEN /\ slept' = Append(slept, 2 ^ (retry_count + 1))
            /\ call_pc' = "attempt"
       ELSE /\ slept' = slept
            /\ call_pc' = "raised"
    /\ UNCHANGED <<callOther, called>>

\* a request that fails with any other exception, or outside a retry loop:
\* the exception propagates
CallFailsRaise ==
    /\ mode = "call"
    /\ call_pc = "attempt"
    /\ called # "google"
    /\ \E e \in ProviderErrors :
          /\ ~(HasRetryLoop(call_site, called) /\ Retryable(called, e))
          /\ last_error' = e
    /\ attempts' = attempts + 1
    /\ call_pc' = "raised"
    /\ UNCHANGED <<callOther, called, retry_count, slept>>

\* _call_google: every exception is logged and "[]" is returned
CallGoogleFails ==
    /\ mode = "call"
    /\ call_pc = "attempt"
    /\ called = "google"
    /\ \E e \in ProviderErrors : last_error' = e
    /\ attempts' = attempts + 1
    /\ call_pc' = "returned"
    /\ UNCHANGED <<callOther, called, retry_count, slept>>

NextCall ==
    \/ CallSelect
    \/ CallSucceeds
    \/ CallFailsRetry
    \/ CallFailsRaise
    \/ CallGoogleFails

SpecCall == InitCall /\ [][NextCall]_vars

(***************************************************************************)
(* app/services/llm_service.py: LLMService.analyze_diff, one step per      *)
(* selected file, then the cross-file analysis.  What a provider answers   *)
(* is the environment's choice; which provider is asked follows the        *)
(* chains above.                                                           *)
(***************************************************************************)
\* the [:10] of files_to_analyze
files_limit == 10

\* `additions + deletions > 5`
change_threshold == 5

\* a file change: with a patch and 6 changed lines, with a patch and 5, or
\* with 6 changed lines and no patch
FileKinds ==
    {[patch |-> TRUE, changes |-> 6], [patch |-> TRUE, changes |-> 5],
     [patch |-> FALSE, changes |-> 6]}

FileChange(i, kind) ==
    [filename |-> "f" \o ToString(i) \o ".py", patch |-> kind.patch,
     changes |-> kind.changes]

DiffDatas ==
    UNION {{[i \in 1..n |-> FileChange(i, kinds[i])] : kinds \in [1..n -> FileKinds]} :
           n \in 0..MaxFiles}

IsSignificant(f) == f.patch /\ f.changes > change_threshold

\* files_to_analyze = [f for f in diff_data if ...][:10]
files_to_analyze ==
    LET sel == SelectSeq(diff_data, IsSignificant)
    IN SubSeq(sel, 1, IF Len(sel) < files_limit THEN Len(sel) ELSE files_limit)

\* the finding the model reports for a file
AiFinding(filename) == MkFinding(filename, 10, "medium", "bug", 2)

CrossFinding == MkFinding("cross-file-analysis", 0, "medium", "bug", 3)

\* what _analyze_file_with_llm can do with the provider its chain picks: with
\* none it returns []; _call_google never raises
FileOutcomes(p) ==
    IF p = "no_provider" THEN {"empty"}
    ELSE IF p = "google" THEN {"findings", "empty"}
    ELSE {"findings", "empty", "raised"}

\* _analyze_cross_file_impact catches the failures of its call itself; what
\* escapes it is caught by analyze_diff
CrossOutcomes(p) ==
    IF p = "no_provider" THEN {"empty", "failed"} ELSE {"findings", "empty", "failed"}

\* the loop index after a file whose analysis raised
AfterFailedFile_mutant_break(i, n) == n
AfterFailedFile(i, n) == i + 1

InitAnalyze ==
    /\ mode = "analyze"
    /\ DedupIdle
    /\ DiffIdle
    /\ PipeIdle
    /\ RuleIdle
    /\ CallIdle
    /\ ExtIdle
    /\ provider \in Providers
    /\ use_groq \in BOOLEAN
    /\ use_openai \in BOOLEAN
    /\ use_anthropic \in BOOLEAN
    /\ use_google \in BOOLEAN
    /\ diff_data \in DiffDatas
    /\ ad_pos = 0
    /\ ad_pc = "files"
    /\ ad_outcomes = <<>>
    /\ cross_outcome = "none"
    /\ llm_findings = <<>>

adOther == <<mode, dedupVars, diffVars, pipeVars, ruleVars, credVars, callVars, extVars,
             diff_data>>

\* a loop iteration in which _analyze_file_with_llm returns its findings
AnalyzeFileReturns ==
    /\ mode = "analyze"
    /\ ad_pc = "files"
    /\ ad_pos < Len(files_to_analyze)
    /\ \E out \in FileOutcomes(file_provider) \ {"raised"} :
          /\ ad_outcomes' = Append(ad_outcomes, out)
          /\ llm_findings' =
                IF out = "findings"
                THEN Append(llm_findings, AiFinding(files_to_analyze[ad_pos + 1].filename))
                ELSE llm_findings
    /\ ad_pos' = ad_pos + 1
    /\ UNCHANGED <<adOther, ad_pc, cross_outcome>>

\* a loop iteration in which it raises: the except clause logs the error
AnalyzeFileRaises ==
    /\ mode = "analyze"
    /\ ad_pc = "files"
    /\ ad_pos < Len(files_to_analyze)
    /\ "raised" \in FileOutcomes(file_provider)
    /\ ad_outcomes' = Append(ad_outcomes, "raised")
    /\ ad_pos' = AfterFailedFile(ad_pos, Len(files_to_analyze))
    /\ UNCHANGED <<adOther, ad_pc, cross_outcome, llm_findings>>

\* the end of the loop
AnalyzeFilesDone ==
    /\ mode = "analyze"
    /\ ad_pc = "files"
    /\ ad_pos >= Len(files_to_analyze)
    /\ ad_pc' = IF Len(files_to_analyze) > 1 THEN "cross_file" ELSE "returned"
    /\ UNCHANGED <<adOther, ad_pos, ad_outcomes, cross_outcome, llm_findings>>

\* the cross-file analysis, in its own try/except, then return findings
AnalyzeCrossFile ==
    /\ mode = "analyze"
    /\ ad_pc = "cross_file"
    /\ \E out \in CrossOutcomes(cross_file_provider) :
          /\ cross_outcome' = out
          /\ llm_findings' = IF out = "findings" THEN Append(llm_findings, CrossFinding)
                             ELSE llm_findings
    /\ ad_pc' = "returned"
    /\ UNCHANGED <<adOther, ad_pos, ad_outcomes>>

NextAnalyze ==
    \/ AnalyzeFileReturns
    \/ AnalyzeFileRaises
    \/ AnalyzeFilesDone
    \/ AnalyzeCrossFile

SpecAnalyze == InitAnalyze /\ [][NextAnalyze]_vars

(***************************************************************************)
(* Claims about DiffParser.parse_patch and _check_file (SpecDiff).         *)
(***************************************************************************)
\* the hunks opened so far, the open one last
OpenedHunks == IF parse_pc = "loop" THEN hunks \o current_hunk ELSE hunks

\* positions of the consumed lines that are valid hunk headers, in order
HeaderPositions ==
    SelectSeq([i \in 1..pos |-> i], LAMBDA q : hunk_match(patch[q]) # <<>>)

\* the consumed body lines of the k-th hunk: positions after its header up to
\* the next header
BodyPositions(k) ==
    LET hp == HeaderPositions
        last == IF k < Len(hp) THEN hp[k + 1] - 1 ELSE pos
    IN SelectSeq([i \in 1..pos |-> i], LAMBDA r : r > hp[k] /\ r <= last)

IsPlusLine(r) == patch[r] \in {"+a", "+b"}

IsMinusLine(r) == patch[r] = "-x"

IsContextLine(r) == patch[r] = " c"

\* number of body lines of hunk k before position p that satisfy Counted
Preceding(k, p, Counted(_)) ==
    LET body == BodyPositions(k)
    IN Cardinality({j \in 1..Len(body) : body[j] < p /\ Counted(body[j])})

CountsNew(r) == IsPlusLine(r) \/ IsContextLine(r)

CountsOld(r) == IsMinusLine(r) \/ IsContextLine(r)

ExpectedAdded(k) ==
    LET plus == SelectSeq(BodyPositions(k), IsPlusLine)
        start == hunk_match(patch[HeaderPositions[k]])[1].new_start
    IN [j \in 1..Len(plus) |->
            [line_number |-> start + Preceding(k, plus[j], CountsNew),
             code |-> StripPrefix(patch[plus[j]])]]

ExpectedRemoved(k) ==
    LET minus == SelectSeq(BodyPositions(k), IsMinusLine)
        start == hunk_match(patch[HeaderPositions[k]])[1].old_start
    IN [j \in 1..Len(minus) |->
            [line_number |-> start + Preceding(k, minus[j], CountsOld),
             code |-> StripPrefix(patch[minus[j]])]]

\* C4: parse_patch is a state machine over the lines: a valid header sets the
\* counters to old_start/new_start, '+' is recorded at new_line (then +1), '-'
\* at old_line (then +1), a context line increments both, any other line
\* changes nothing; so each added line's line_number is its hunk's new_start
\* plus the number of '+' and context lines before it in the hunk (and each
\* removed line's is old_start plus the '-' and context lines before it).
C4_LineNumbersFollowHunkCounters ==
    (mode = "diff" /\ parse_pc # "idle") =>
        /\ Len(OpenedHunks) = Len(HeaderPositions)
        /\ \A k \in 1..Len(OpenedHunks) :
              /\ OpenedHunks[k].added = ExpectedAdded(k)
              /\ OpenedHunks[k].removed = ExpectedRemoved(k)
        /\ (parse_pc = "loop" /\ current_hunk # <<>>) =>
              LET k == Len(HeaderPositions)
              IN /\ new_line_no = current_hunk[1].new_start
                                    + Preceding(k, pos + 1, CountsNew)
                 /\ old_line_no = current_hunk[1].old_start
                                    + Preceding(k, pos + 1, CountsOld)

\* C4 witness: a parsed hunk whose added line follows a context line and
\* another added line, and which also holds a removed line or a second hunk
C4_Witness_AddedAfterContext ==
    /\ parse_pc = "returned"
    /\ \E k \in 1..Len(hunks) :
          /\ Len(hunks[k].added) = 2
          /\ Len(hunks[k].context) = 3
          /\ hunks[k].context[1] = " c"
          /\ hunks[k].added[2].line_number = hunks[k].new_start + 2

RECURSIVE FlattenAdded(_)
FlattenAdded(hs) ==
    IF hs = <<>> THEN <<>>
    ELSE FlattenAdded(SubSeq(hs, 1, Len(hs) - 1)) \o hs[Len(hs)].added

\* C5: for every patch, the (line_number, added_code) pairs the rule engine
\* passes to its checks are exactly the added lines parse_patch records.
C5_CheckFileMatchesParsePatch ==
    (mode = "diff" /\ parse_pc = "returned" /\ cf_pc = "returned") =>
        checked = FlattenAdded(hunks)

(***************************************************************************)
(* The analysis pipeline of one run.  The diff of the pull request is      *)
(* fixed: the rule engine reports one finding, the per-file LLM analysis   *)
(* one more on the same line, the cross-file analysis one of its own.      *)
(* Faults are injected where the code calls a collaborator: the GitHub     *)
(* client, the optional stages, the commit of the results, the task queue. *)
(***************************************************************************)
RuleFindings == <<MkFinding("app.py", 10, "high", "security", 1)>>

AiFileFindings == <<MkFinding("app.py", 10, "medium", "bug", 2)>>

CrossFileFindings == <<MkFinding("cross-file-analysis", 0, "medium", "bug", 3)>>

OptionalStages == {"llm_file", "cross_file", "auto_fix", "embedding", "risk", "summary"}

\* the outcomes of a call of a collaborator, while faults may still be injected
Outcomes == IF faults < MaxFaults THEN BOOLEAN ELSE {TRUE}

Count(ok) == IF ok THEN faults ELSE faults + 1

\* the provider an LLM stage of the pipeline asks: analyze_diff's two stages
\* have their own chains, auto-fix, risk score and summary go through
\* _call_llm_raw
StageProvider(stage) ==
    CASE stage = "llm_file" -> file_provider
      [] stage = "cross_file" -> cross_file_provider
      [] OTHER -> raw_provider

LlmStages == {"llm_file", "cross_file", "auto_fix", "risk", "summary"}

\* the stages whose chain ends without a provider: they return [] or "" and
\* their output is missing; the risk score falls back on its heuristics
NoProviderStages ==
    {stage \in LlmStages \ {"risk"} : StageProvider(stage) = "no_provider"}

\* the providers the LLM stages of one execution send requests to
ProvidersCalled == {StageProvider(stage) : stage \in LlmStages} \ {"no_provider"}

\* the sets of optional stages that may raise in one execution
StageFailureSets == {F \in SUBSET OptionalStages : faults + Cardinality(F) <= MaxFaults}

\* UsageService.can_perform_analysis
can_perform_analysis(used, limit) ==
    IF limit = Unlimited THEN TRUE
    ELSE IF used >= limit THEN FALSE
    ELSE TRUE

\* LLMService.analyze_diff: a failing file analysis or cross-file analysis is
\* caught and contributes nothing
ai_findings(F) ==
    (IF "llm_file" \in F THEN <<>> ELSE AiFileFindings)
        \o (IF "cross_file" \in F THEN <<>> ELSE CrossFileFindings)

all_findings(F) == RuleFindings \o ai_findings(F)

\* the Finding row built from one deduplicated finding
FindingRow(f, F) ==
    [file_path |-> f.file_path, line_number |-> f.line_number,
     severity |-> f.severity, category |-> f.category,
     description |-> f.description,
     auto_fix_code |-> IF f.severity \in {"critical", "high"} /\ "auto_fix" \notin F
                       THEN "fix" ELSE "None",
     embedding |-> IF "embedding" \notin F THEN "vector" ELSE "None"]

\* the rows db.add()ed by the loop over deduplicated_findings
FindingRows(F) ==
    LET d == deduplicate_findings(all_findings(F)).value
    IN [j \in 1..Len(d) |-> FindingRow(d[j], F)]

Raise(e, cause) == [execs EXCEPT ![e].pc = "except", ![e].exc = cause]

Goto(e, pc) == [execs EXCEPT ![e].pc = pc]

Enqueue(q, r) == [q EXCEPT ![r] = @ + 1]

Reply(op, code) == [op |-> op, code |-> code]

\* the worker or request thread that takes up an execution: the first free one
FreeExec(e) ==
    /\ execs[e].pc = "idle"
    /\ \A e2 \in ExecIds : e2 < e => execs[e2].pc # "idle"

otherVars == <<mode, dedupVars, diffVars, envVars, svcVars>>

(***************************************************************************)
(* app/api/webhooks.py: github_webhook.                                    *)
(***************************************************************************)
Webhook ==
    /\ mode = "pipe"
    /\ status = "none"
    /\ status' = "pending"
    /\ IF enable_background_tasks
       THEN \E delay_ok \in Outcomes :
               /\ queue' = IF delay_ok THEN Enqueue(queue, 0) ELSE queue
               /\ response' = Reply("webhook", IF delay_ok THEN 200 ELSE 500)
               /\ faults' = Count(delay_ok)
       ELSE /\ response' = Reply("webhook", 200)
            /\ UNCHANGED <<queue, faults>>
    /\ UNCHANGED <<otherVars, analyses_used, error_message, risk_score, pr_summary,
                   stored, execs, rerun_pc, reruns>>

(***************************************************************************)
(* app/api/analysis.py: analyze_pr_manual.                                 *)
(***************************************************************************)
\* the usage check fails: 403
ManualForbidden ==
    /\ mode = "pipe"
    /\ status = "none"
    /\ ~can_perform_analysis(analyses_used, analyses_limit)
    /\ response' = Reply("analyze-pr", 403)
    /\ UNCHANGED <<otherVars, analyses_used, runVars, queue, execs, rerun_pc, reruns,
                   faults>>

\* no GitHub token configured: 400
ManualNoToken ==
    /\ mode = "pipe"
    /\ status = "none"
    /\ can_perform_analysis(analyses_used, analyses_limit)
    /\ github # "pat"
    /\ response' = Reply("analyze-pr", 400)
    /\ UNCHANGED <<otherVars, analyses_used, runVars, queue, execs, rerun_pc, reruns,
                   faults>>

\* the run is created PENDING and queued: 200
ManualQueue ==
    /\ mode = "pipe"
    /\ status = "none"
    /\ can_perform_analysis(analyses_used, analyses_limit)
    /\ github = "pat"
    /\ enable_background_tasks
    /\ status' = "pending"
    /\ queue' = Enqueue(queue, 0)
    /\ response' = Reply("analyze-pr", 200)
    /\ UNCHANGED <<otherVars, analyses_used, error_message, risk_score, pr_summary,
                   stored, execs, rerun_pc, reruns, faults>>

\* the run is created PENDING and, background tasks being disabled or
\* delay() raising, the inline analysis begins in the request
ManualInline(e) ==
    /\ mode = "pipe"
    /\ status = "none"
    /\ can_perform_analysis(analyses_used, analyses_limit)
    /\ github = "pat"
    /\ FreeExec(e)
    /\ IF enable_background_tasks
       THEN faults < MaxFaults /\ faults' = faults + 1
       ELSE faults' = faults
    /\ status' = "pending"
    /\ execs' = [execs EXCEPT ![e] =
                    [IdleExec EXCEPT !.pc = "inline_start", !.kind = "inline"]]
    /\ UNCHANGED <<otherVars, analyses_used, error_message, risk_score, pr_summary,
                   stored, queue, rerun_pc, reruns, response>>

(***************************************************************************)
(* app/api/analysis.py: rerun_analysis.                                    *)
(***************************************************************************)
\* the status test of the rerun request
RerunAllowed_mutant_any_started(st) == st \in {"failed", "completed", "running"}
RerunAllowed(st) == st \in {"failed", "completed"}

\* 400: the run is neither FAILED nor COMPLETED
RerunReject ==
    /\ mode = "pipe"
    /\ rerun_pc = "idle"
    /\ status # "none"
    /\ ~RerunAllowed(status)
    /\ response' = Reply("rerun", 400)
    /\ UNCHANGED <<otherVars, analyses_used, runVars, queue, execs, rerun_pc, reruns,
                   faults>>

\* 503: background tasks are disabled
RerunDisabled ==
    /\ mode = "pipe"
    /\ rerun_pc = "idle"
    /\ RerunAllowed(status)
    /\ ~enable_background_tasks
    /\ response' = Reply("rerun", 503)
    /\ UNCHANGED <<otherVars, analyses_used, runVars, queue, execs, rerun_pc, reruns,
                   faults>>

\* the findings are deleted and the run reset, up to the commit
RerunReset ==
    /\ mode = "pipe"
    /\ rerun_pc = "idle"
    /\ reruns < MaxReruns
    /\ RerunAllowed(status)
    /\ enable_background_tasks
    /\ stored' = <<>>
    /\ status' = "pending"
    /\ error_message' = "None"
    /\ rerun_pc' = "queue"
    /\ reruns' = reruns + 1
    /\ UNCHANGED <<otherVars, analyses_used, risk_score, pr_summary, queue, execs,
                   faults, response>>

\* analyze_pr_task.delay(run_id), and the handler of its failure
RerunQueue ==
    /\ mode = "pipe"
    /\ rerun_pc = "queue"
    /\ rerun_pc' = "idle"
    /\ \E delay_ok \in Outcomes :
          /\ faults' = Count(delay_ok)
          /\ IF delay_ok
             THEN /\ queue' = Enqueue(queue, 0)
                  /\ response' = Reply("rerun", 200)
                  /\ UNCHANGED <<status, error_message>>
             ELSE /\ status' = "failed"
                  /\ error_message' = "Failed to queue re-run"
                  /\ response' = Reply("rerun", 500)
                  /\ queue' = queue
    /\ UNCHANGED <<otherVars, analyses_used, risk_score, pr_summary, stored, execs,
                   reruns>>

(***************************************************************************)
(* app/tasks/analysis.py: analyze_pr_task, one step per commit or call of  *)
(* a collaborator.  _get_github_service returns the PAT client when the    *)
(* owner has a token and the GitHub App client otherwise.                  *)
(***************************************************************************)
\* a worker takes a message: the run is loaded, set RUNNING and committed
TaskStart(e) ==
    /\ mode = "pipe"
    /\ FreeExec(e)
    /\ \E r \in 0..max_retries :
          /\ queue[r] > 0
          /\ queue' = [queue EXCEPT ![r] = @ - 1]
          /\ execs' = [execs EXCEPT ![e] =
                [IdleExec EXCEPT !.pc = "pending_check", !.kind = "task", !.retries = r]]
    /\ status' = "running"
    /\ UNCHANGED <<otherVars, analyses_used, error_message, risk_score, pr_summary,
                   stored, rerun_pc, reruns, faults, response>>

\* does create_status_check let an exception of the GitHub API escape?
\* GitHubPATService catches it, GitHubService does not
StatusCheckRaises(client, ok) == ~ok /\ client = "app"

\* github_service.create_status_check(state="pending")
TaskPendingCheck(e) ==
    /\ mode = "pipe"
    /\ execs[e].kind = "task"
    /\ execs[e].pc = "pending_check"
    /\ \E ok \in Outcomes :
          /\ faults' = Count(ok)
          /\ execs' = IF StatusCheckRaises(github, ok) THEN Raise(e, "notify")
                      ELSE Goto(e, "fetch")
    /\ UNCHANGED <<otherVars, analyses_used, runVars, queue, rerun_pc, reruns, response>>

\* github_service.get_pr_diff (task and inline analysis)
Fetch(e) ==
    /\ mode = "pipe"
    /\ execs[e].pc = "fetch"
    /\ \E ok \in Outcomes :
          /\ faults' = Count(ok)
          /\ execs' = IF ok THEN Goto(e, "analyze") ELSE Raise(e, "fetch")
    /\ UNCHANGED <<otherVars, analyses_used, runVars, queue, rerun_pc, reruns, response>>

\* does an exception of an optional stage escape to the caller?  Each stage
\* is wrapped in its own try/except, so none does
StageEscapes_mutant_llm_unguarded(F) == "llm_file" \in F
StageEscapes(F) == FALSE

\* rule engine, LLM stages, deduplication, the loop building the Finding rows
\* (auto-fix, embedding), risk score and summary: all in the session, nothing
\* committed; F is the set of optional stages that raise in this execution,
\* and a stage without a provider gives nothing either
Analyze(e) ==
    /\ mode = "pipe"
    /\ execs[e].pc = "analyze"
    /\ \E F \in StageFailureSets :
          /\ faults' = faults + Cardinality(F)
          /\ execs' = IF StageEscapes(F) THEN Raise(e, "stage")
                      ELSE IF deduplicate_findings(
                                  all_findings(F \cup NoProviderStages)).raised
                      THEN Raise(e, "KeyError")
                      ELSE [execs EXCEPT ![e].pc = "commit",
                                         ![e].failed = F \cup NoProviderStages,
                                         ![e].llm_calls = ProvidersCalled]
    /\ UNCHANGED <<otherVars, analyses_used, runVars, queue, rerun_pc, reruns, response>>

\* run.status = COMPLETED; db.commit(): rows, risk score and summary are
\* persisted together, or the commit raises and nothing is
TaskCommit(e) ==
    /\ mode = "pipe"
    /\ execs[e].kind = "task"
    /\ execs[e].pc = "commit"
    /\ \E ok \in Outcomes :
          /\ faults' = Count(ok)
          /\ IF ok
             THEN /\ stored' = stored \o FindingRows(execs[e].failed)
                  /\ risk_score' = IF "risk" \in execs[e].failed THEN "None" ELSE "set"
                  /\ pr_summary' = IF "summary" \in NoProviderStages THEN "None"
                                   ELSE IF "summary" \in execs[e].failed
                                   THEN pr_summary
                                   ELSE "set"
                  /\ status' = "completed"
                  /\ execs' = [execs EXCEPT ![e].pc = "post", ![e].failed = {}]
             ELSE /\ execs' = Raise(e, "commit")
                  /\ UNCHANGED <<stored, risk_score, pr_summary, status>>
    /\ UNCHANGED <<otherVars, analyses_used, error_message, queue, rerun_pc, reruns,
                   response>>

\* post_findings_to_pr: post_pr_comment is not guarded, the inline review
\* comments are
TaskPostComment(e) ==
    /\ mode = "pipe"
    /\ execs[e].kind = "task"
    /\ execs[e].pc = "post"
    /\ \E comment_ok \in Outcomes :
          /\ faults' = Count(comment_ok)
          /\ execs' = IF comment_ok THEN Goto(e, "final_check")
                      ELSE Raise(e, "notify")
    /\ UNCHANGED <<otherVars, analyses_used, runVars, queue, rerun_pc, reruns, response>>

\* the final create_status_check, then the task returns
TaskFinalCheck(e) ==
    /\ mode = "pipe"
    /\ execs[e].kind = "task"
    /\ execs[e].pc = "final_check"
    /\ \E ok \in Outcomes :
          /\ faults' = Count(ok)
          /\ execs' = IF StatusCheckRaises(github, ok) THEN Raise(e, "notify")
                      ELSE [execs EXCEPT ![e] = IdleExec]
    /\ UNCHANGED <<otherVars, analyses_used, runVars, queue, rerun_pc, reruns, response>>

\* what the except block writes to run.error_message: str(e)
HandlerMessage_mutant_unset(exc) == "None"
HandlerMessage(exc) == exc

\* except Exception: the run is set FAILED with str(e) and committed, and
\* the task retries itself while request.retries < max_retries
TaskHandler(e) ==
    /\ mode = "pipe"
    /\ execs[e].kind = "task"
    /\ execs[e].pc = "except"
    /\ status' = "failed"
    /\ error_message' = HandlerMessage(execs[e].exc)
    /\ queue' = IF execs[e].retries < max_retries
                THEN Enqueue(queue, execs[e].retries + 1) ELSE queue
    /\ execs' = [execs EXCEPT ![e] = IdleExec]
    /\ UNCHANGED <<otherVars, analyses_used, risk_score, pr_summary, stored, rerun_pc,
                   reruns, faults, response>>

(***************************************************************************)
(* app/api/analysis.py: _run_analysis_inline, within analyze_pr_manual.    *)
(***************************************************************************)
\* run.status = RUNNING; db.commit()
InlineStart(e) ==
    /\ mode = "pipe"
    /\ execs[e].kind = "inline"
    /\ execs[e].pc = "inline_start"
    /\ status' = "running"
    /\ execs' = Goto(e, "fetch")
    /\ UNCHANGED <<otherVars, analyses_used, error_message, risk_score, pr_summary,
                   stored, queue, rerun_pc, reruns, faults, response>>

\* run.status = COMPLETED, UsageService.increment_usage, db.commit()
InlineCommit(e) ==
    /\ mode = "pipe"
    /\ execs[e].kind = "inline"
    /\ execs[e].pc = "commit"
    /\ \E ok \in Outcomes :
          /\ faults' = Count(ok)
          /\ IF ok
             THEN /\ stored' = stored \o FindingRows(execs[e].failed)
                  /\ risk_score' = IF "risk" \in execs[e].failed THEN risk_score
                                   ELSE "set"
                  /\ pr_summary' = IF "summary" \in NoProviderStages THEN "None"
                                   ELSE IF "summary" \in execs[e].failed
                                   THEN pr_summary
                                   ELSE "set"
                  /\ status' = "completed"
                  /\ analyses_used' = analyses_used + 1
                  /\ execs' = [execs EXCEPT ![e].pc = "post", ![e].failed = {}]
             ELSE /\ execs' = Raise(e, "commit")
                  /\ UNCHANGED <<stored, risk_score, pr_summary, status, analyses_used>>
    /\ UNCHANGED <<otherVars, error_message, queue, rerun_pc, reruns, response>>

\* the results are posted inside try/except; the request returns 200
InlinePost(e) ==
    /\ mode = "pipe"
    /\ execs[e].kind = "inline"
    /\ execs[e].pc = "post"
    /\ \E ok \in Outcomes : faults' = Count(ok)
    /\ execs' = [execs EXCEPT ![e] = IdleExec]
    /\ response' = Reply("analyze-pr", 200)
    /\ UNCHANGED <<otherVars, analyses_used, runVars, queue, rerun_pc, reruns>>

\* analyze_pr_manual's except: FAILED with str(e), 500, no retry
InlineHandler(e) ==
    /\ mode = "pipe"
    /\ execs[e].kind = "inline"
    /\ execs[e].pc = "except"
    /\ status' = "failed"
    /\ error_message' = execs[e].exc
    /\ execs' = [execs EXCEPT ![e] = IdleExec]
    /\ response' = Reply("analyze-pr", 500)
    /\ UNCHANGED <<otherVars, analyses_used, risk_score, pr_summary, stored, queue,
                   rerun_pc, reruns, faults>>

(***************************************************************************)
(* The coordinator's specification.                                        *)
(***************************************************************************)
UsageRecords ==
    {<<FreeAnalysesLimit - 1, FreeAnalysesLimit>>,
     <<FreeAnalysesLimit, FreeAnalysesLimit>>,
     <<FreeAnalysesLimit, Unlimited>>}

\* the LLM credentials of the run's owner: none, a Groq key, or a Google key
PipeCredentials == {{}, {"groq"}, {"google"}}

Init ==
    /\ mode = "pipe"
    /\ DedupIdle
    /\ DiffIdle
    /\ RuleIdle
    /\ CallIdle
    /\ AnalyzeIdle
    /\ ExtIdle
    /\ provider = "groq"
    /\ \E keys \in PipeCredentials :
          /\ use_groq = ("groq" \in keys)
          /\ use_google = ("google" \in keys)
    /\ use_openai = FALSE
    /\ use_anthropic = FALSE
    /\ enable_background_tasks \in BOOLEAN
    /\ github \in {"pat", "app"}
    /\ \E u \in UsageRecords : analyses_used = u[1] /\ analyses_limit = u[2]
    /\ status = "none"
    /\ error_message = "None"
    /\ risk_score = "None"
    /\ pr_summary = "None"
    /\ stored = <<>>
    /\ queue = EmptyQueue
    /\ execs = [e \in ExecIds |-> IdleExec]
    /\ rerun_pc = "idle"
    /\ reruns = 0
    /\ faults = 0
    /\ response = NoResponse

Next ==
    \/ Webhook
    \/ ManualForbidden
    \/ ManualNoToken
    \/ ManualQueue
    \/ \E e \in ExecIds : ManualInline(e)
    \/ RerunReject
    \/ RerunDisabled
    \/ RerunReset
    \/ RerunQueue
    \/ \E e \in ExecIds : TaskStart(e)
    \/ \E e \in ExecIds : TaskPendingCheck(e)
    \/ \E e \in ExecIds : Fetch(e)
    \/ \E e \in ExecIds : Analyze(e)
    \/ \E e \in ExecIds : TaskCommit(e)
    \/ \E e \in ExecIds : TaskPostComment(e)
    \/ \E e \in ExecIds : TaskFinalCheck(e)
    \/ \E e \in ExecIds : TaskHandler(e)
    \/ \E e \in ExecIds : InlineStart(e)
    \/ \E e \in ExecIds : InlineCommit(e)
    \/ \E e \in ExecIds : InlinePost(e)
    \/ \E e \in ExecIds : InlineHandler(e)

Spec == Init /\ [][Next]_vars

(***************************************************************************)
(* Claims about the coordinator (checked under Spec).                      *)
(***************************************************************************)
\* C1: the run's status changes only along PENDING->RUNNING,
\* RUNNING->COMPLETED, RUNNING->FAILED, or by an accepted rerun request from
\* COMPLETED/FAILED to PENDING, whatever the triggers (webhook or manual
\* creation, task executions and their retries, inline analysis, reruns).
C1_StatusStateMachine ==
    [][status' # status =>
          \/ status = "none" /\ status' = "pending"
          \/ status = "pending" /\ status' = "running"
          \/ status = "running" /\ status' \in {"completed", "failed"}
          \/ /\ status \in {"completed", "failed"}
             /\ status' = "pending"
             /\ reruns' = reruns + 1]_vars

ExpectedRuleRow(F) ==
    [file_path |-> "app.py", line_number |-> 10, severity |-> "high",
     category |-> "security",
     description |-> [base |-> 1,
                      notes |-> IF "llm_file" \in F THEN <<>> ELSE <<{"bug"}>>],
     auto_fix_code |-> IF "auto_fix" \in F THEN "None" ELSE "fix",
     embedding |-> IF "embedding" \in F THEN "None" ELSE "vector"]

ExpectedCrossRow(F) ==
    [file_path |-> "cross-file-analysis", line_number |-> 0, severity |-> "medium",
     category |-> "bug", description |-> [base |-> 3, notes |-> <<>>],
     auto_fix_code |-> "None",
     embedding |-> IF "embedding" \in F THEN "None" ELSE "vector"]

ExpectedRows(F) ==
    <<ExpectedRuleRow(F)>> \o (IF "cross_file" \in F THEN <<>> ELSE <<ExpectedCrossRow(F)>>)

\* C7: an exception in an optional stage (per-file LLM analysis, cross-file
\* analysis, auto-fix, embedding, risk score, summary) never sends the
\* execution to the failure handler: it goes on to the commit, which makes
\* the run COMPLETED with the deduplicated findings persisted, only the
\* failed stages' outputs missing.
C7_OptionalStageFailureTolerated ==
    [][\A e \in ExecIds :
          /\ (execs[e].pc = "analyze" /\ execs'[e] # execs[e])
                => (execs'[e].pc = "commit" /\ execs'[e].exc = "None")
          /\ (execs[e].pc = "commit" /\ execs'[e].pc = "post")
                => /\ status' = "completed"
                   /\ stored' = stored \o ExpectedRows(execs[e].failed)
                   /\ "summary" \notin execs[e].failed => pr_summary' = "set"
                   /\ risk_score' = "set" <=> "risk" \notin execs[e].failed]_vars

\* C7 witness: a run COMPLETED although the embedding stage raised and the
\* per-file LLM analysis raised
C7_Witness_CompletedDespiteStageFailures ==
    /\ status = "completed"
    /\ Len(stored) = 2
    /\ stored[1].embedding = "None"
    /\ stored[1].description.notes = <<>>
    /\ stored[2].file_path = "cross-file-analysis"

\* C8: a failure of the notification collaborator (pending status check,
\* summary comment, inline comments, final status check) is only logged: it
\* changes neither the run's status nor its error_message and causes no retry.
C8_NotificationFailureOnlyLogged ==
    [][\A e \in ExecIds :
          (/\ execs[e].exc = "notify"
           /\ execs[e].pc = "except"
           /\ execs'[e].pc = "idle")
          => (status' = status /\ error_message' = error_message /\ queue' = queue)]_vars

\* C9: no pipeline execution starts for a run while the usage check would
\* return false for the project's owner, on any path (manual, webhook, rerun).
C9_NoExecutionOverQuota ==
    [][\A e \in ExecIds :
          (execs[e].pc = "idle" /\ execs'[e].pc # "idle")
          => can_perform_analysis(analyses_used, analyses_limit)]_vars

\* C10: a rerun request is accepted only when the run is FAILED or COMPLETED;
\* in PENDING or RUNNING it is rejected and status and findings stay as they
\* are; when accepted the status becomes PENDING, the stored findings are
\* deleted and error_message is cleared, before the new analysis is queued.
C10_RerunOnlyFromTerminal ==
    [][/\ reruns' # reruns
            => /\ status \in {"failed", "completed"}
               /\ status' = "pending"
               /\ stored' = <<>>
               /\ error_message' = "None"
               /\ queue' = queue
               /\ rerun_pc' = "queue"
       /\ status \in {"pending", "running"} => reruns' = reruns
       /\ (response' = Reply("rerun", 400) /\ response' # response)
            => /\ status \in {"pending", "running"}
               /\ status' = status
               /\ stored' = stored
               /\ queue' = queue]_vars

\* C10 witness: a rerun of a run that had completed with findings was
\* accepted: the findings are gone, the run is PENDING, nothing is queued yet
C10_Witness_RerunAccepted ==
    /\ rerun_pc = "queue"
    /\ reruns = 1
    /\ status = "pending"
    /\ stored = <<>>
    /\ error_message = "None"
    /\ risk_score = "set"
    /\ queue = EmptyQueue

\* the executions of the pipeline that are under way for the run
ActiveExecs == {e \in ExecIds : execs[e].pc # "idle"}

\* C11: across all interleavings of task executions, Celery retries and
\* rerun requests, at most one execution of the analysis pipeline is active
\* for the run at any time.
C11_AtMostOneActiveExecution == Cardinality(ActiveExecs) <= 1

(***************************************************************************)
(* Further claims about deduplicate_findings (checked under SpecDedup).    *)
(***************************************************************************)
\* C12: deduplicate_findings is idempotent: applied to a list it returned, it
\* returns that same list (same findings, same order, same descriptions).
C12_DedupIdempotent ==
    (dedup_out.ran /\ ~dedup_out.raised) =>
        deduplicate_findings(dedup_out.value) =
            [raised |-> FALSE, value |-> dedup_out.value, ran |-> TRUE]

\* C12 witness: a merged list (it carries an "Additional concerns" note) was
\* passed to deduplicate_findings again and came back as it was
C12_Witness_SecondPass ==
    /\ dedup_out.ran
    /\ ~dedup_out.raised
    /\ dedup_out.value = findings_in
    /\ \E j \in 1..Len(findings_in) : findings_in[j].description.notes # <<>>

\* the input is two candidates at one key with severities high and medium
HighMediumPair ==
    /\ Len(findings_in) = 2
    /\ FindingKey(findings_in[1]) = FindingKey(findings_in[2])
    /\ {findings_in[1].severity, findings_in[2].severity} = {"high", "medium"}

\* the description carries an "Additional concerns: ..." note
HasAdditionalConcerns(f) == f.description.notes # <<>>

\* C13 (as stated): deduplicating any two candidates at the same key with
\* severities high and medium yields exactly one finding, with severity high
\* and a description containing "Additional concerns".
C13_HighMediumAlwaysAnnotated ==
    (dedup_out.ran /\ HighMediumPair) =>
        /\ ~dedup_out.raised
        /\ Len(dedup_out.value) = 1
        /\ dedup_out.value[1].severity = "high"
        /\ HasAdditionalConcerns(dedup_out.value[1])

\* C13 (amended): deduplicating two candidates at the same key with severities
\* high and medium yields exactly one finding, the high one; its description
\* gains an "Additional concerns" note naming the other category exactly when
\* the two categories differ, and is unchanged when they are equal.
C13_HighMediumAnnotatedIffCategoriesDiffer ==
    (dedup_out.ran /\ HighMediumPair) =>
        LET hi == IF findings_in[1].severity = "high" THEN 1 ELSE 2
            lo == 3 - hi
        IN /\ ~dedup_out.raised
           /\ Len(dedup_out.value) = 1
           /\ dedup_out.value[1].severity = "high"
           /\ dedup_out.value[1].description.base = findings_in[hi].description.base
           /\ IF findings_in[1].category # findings_in[2].category
              THEN dedup_out.value[1].description.notes = <<{findings_in[lo].category}>>
              ELSE dedup_out.value[1] = findings_in[hi]

\* C13 witness: a medium bug listed before a high security finding at the
\* same line was merged into the high one with a note
C13_Witness_MergedWithNote ==
    /\ dedup_out.ran
    /\ HighMediumPair
    /\ findings_in[1].severity = "medium"
    /\ findings_in[1].category # findings_in[2].category
    /\ Len(dedup_out.value) = 1
    /\ HasAdditionalConcerns(dedup_out.value[1])

(***************************************************************************)
(* Further claims about DiffParser.parse_patch (checked under SpecDiff).   *)
(***************************************************************************)
\* C14: within each hunk of parse_patch, the line numbers of the hunk's added
\* lines are strictly increasing in order of appearance, and each is a key of
\* added_lines.
C14_AddedLineNumbersIncrease ==
    \A k \in 1..Len(OpenedHunks) :
        LET added == OpenedHunks[k].added
        IN /\ \A i, j \in 1..Len(added) :
                 i < j => added[i].line_number < added[j].line_number
           /\ \A i \in 1..Len(added) : added[i].line_number \in DOMAIN added_lines

\* C14 witness: a returned hunk with two added lines separated by a context line
C14_Witness_TwoAddedLines ==
    /\ parse_pc = "returned"
    /\ \E k \in 1..Len(hunks) :
          /\ Len(hunks[k].added) = 2
          /\ hunks[k].context = <<"+a", " c", "+b">>
          /\ hunks[k].added[2].line_number = hunks[k].added[1].line_number + 2

\* the lines the hunk header pattern of parse_patch matches
ValidHeaderLines == {HeaderFull, HeaderNoCounts}

\* the patch holds no valid hunk header (the empty patch included)
NoValidHeader == \A i \in 1..Len(patch) : patch[i] \notin ValidHeaderLines

\* C16: for an empty patch and for every patch without a valid `@@` hunk
\* header, parse_patch returns zero hunks and empty added_lines and
\* removed_lines, and every step on the way is defined (nothing raises).
C16_NoHeaderNoHunks ==
    (mode = "diff" /\ NoValidHeader) =>
        /\ hunks = <<>> /\ current_hunk = <<>>
        /\ added_lines = <<>> /\ removed_lines = <<>>
        /\ parse_pc = "loop" =>
              ENABLED (ParseEmpty \/ ParseHeader \/ ParseSkip \/ ParseBody \/ ParseReturn)

\* C16 witness: a patch with an added line after an `@@` line that is not a
\* valid header was parsed to nothing
C16_Witness_HeaderlessPatch ==
    /\ parse_pc = "returned"
    /\ Len(patch) >= 2
    /\ patch[1] = HeaderUnclosed
    /\ patch[2] = "+a"
    /\ NoValidHeader
    /\ hunks = <<>>
    /\ added_lines = <<>>

\* the text of the k-th valid hunk header of the patch and the lines that
\* follow it up to the next valid header
HeaderLineOf(k) == patch[HeaderPositions[k]]

BodyLinesOf(k) == [j \in 1..Len(BodyPositions(k)) |-> patch[BodyPositions(k)[j]]]

\* C15 (as stated): re-emitting each parsed hunk as format_hunk_context does
\* without highlighting reproduces a hunk header identical to the one in the
\* patch and the same body lines in the same order.
C15_FormatRoundTrip ==
    (formatted.ran /\ formatted.highlight_line = 0) =>
        /\ Len(formatted.out) = Len(HeaderPositions)
        /\ \A k \in 1..Len(formatted.out) :
              /\ Head(formatted.out[k]) = HeaderLineOf(k)
              /\ Tail(formatted.out[k]) = BodyLinesOf(k)

\* the header of the patch with omitted counts written as 1 and the text
\* after the closing @@ dropped
NormalisedHeader(line) ==
    CASE line = HeaderFull -> "@@ -1,2 +1,3 @@"
      [] line = HeaderNoCounts -> "@@ -4,1 +7,1 @@"
      [] OTHER -> line

IsRecordedBodyLine(line) == line \in {"+a", "+b", "-x", " c"}

\* C15 (amended): the re-emitted header carries the same four numbers as the
\* header in the patch, in the form with both counts written out and nothing
\* after the closing @@ (identical to the original only when that had this
\* form), and the re-emitted body is the hunk's lines that start with '+', '-'
\* or ' ', in their original order.
C15_FormatRoundTripNormalised ==
    (formatted.ran /\ formatted.highlight_line = 0) =>
        /\ Len(formatted.out) = Len(HeaderPositions)
        /\ \A k \in 1..Len(formatted.out) :
              /\ Head(formatted.out[k]) = NormalisedHeader(HeaderLineOf(k))
              /\ Tail(formatted.out[k]) = SelectSeq(BodyLinesOf(k), IsRecordedBodyLine)

\* C15 witness: a hunk whose header has no counts and trailing text, and
\* whose body holds an empty line, was re-emitted
C15_Witness_HeaderWithoutCounts ==
    /\ formatted.ran
    /\ formatted.highlight_line = 0
    /\ Len(patch) = 4
    /\ patch[1] = HeaderNoCounts
    /\ patch[2] = "+a" /\ patch[3] = "" /\ patch[4] = "-x"
    /\ formatted.out = << <<"@@ -4,1 +7,1 @@", "+a", "-x">> >>

(***************************************************************************)
(* Claims about the rule engine (checked under SpecRules).                 *)
(***************************************************************************)
\* the findings of the lines consumed so far when every check is enabled
RECURSIVE AllRuleFindings(_)
AllRuleFindings(n) ==
    IF n = 0 THEN <<>>
    ELSE AllRuleFindings(n - 1) \o
         RunChecks(Len(ImplementedRules), RuleIds,
                   rule_input[n].line_number, rule_input[n].code)

IsEnabledFinding(f) == f.rule_id \in enabled_rules

RequestFailed == attempts' = attempts + 1 /\ last_error' # NoError

\* C18: in _call_openai, _call_anthropic and _call_groq a request that fails
\* with a rate-limit error is retried, after an exponential backoff of base
\* 2 seconds, and the error propagates only once the retries are used up; a
\* request that fails with any other error propagates at once, with no
\* retry and no sleep; a call sends a bounded number of requests.
C18_RetryOnlyOnRateLimit ==
    /\ [](attempts <= call_max_retries)
    /\ [][(HasRetryLoop(call_site, called) /\ RequestFailed) =>
            IF last_error' = RateLimitErr
            THEN \/ /\ call_pc' = "attempt"
                    /\ slept' = Append(slept, 2 ^ (Len(slept) + 1))
                 \/ /\ call_pc' = "raised"
                    /\ attempts' = call_max_retries
            ELSE IF last_error' = OverloadedErr
            THEN call_pc' \in {"attempt", "raised"}
            ELSE call_pc' = "raised" /\ slept' = slept]_vars

\* the provider has a credential
HasCredential(p) ==
    CASE p = "groq" -> use_groq
      [] p = "openai" -> use_openai
      [] p = "anthropic" -> use_anthropic
      [] p = "google" -> use_google
      [] OTHER -> FALSE

\* C19: at every LLM call site, if the preferred provider has a credential
\* it is the provider called; otherwise some provider that has a credential
\* is called; the 'no provider' result occurs only when no provider has a
\* credential.
C19_PreferredProviderFirst ==
    called # "none" =>
        /\ HasCredential(provider) => called = provider
        /\ (\E p \in Providers : HasCredential(p)) => HasCredential(called)
        /\ called = "no_provider" => \A p \in Providers : ~HasCredential(p)

(***************************************************************************)
(* Claims about LLMService.analyze_diff (checked under SpecAnalyze).       *)
(***************************************************************************)
\* the file changes with a patch and more than 5 changed lines, in order
RECURSIVE SignificantFiles(_)
SignificantFiles(n) ==
    IF n = 0 THEN <<>>
    ELSE IF diff_data[n].patch /\ diff_data[n].changes >= 6
         THEN Append(SignificantFiles(n - 1), diff_data[n])
         ELSE SignificantFiles(n - 1)

\* the findings of the first n selected files whose analysis returned some
RECURSIVE SucceededFindings(_)
SucceededFindings(n) ==
    IF n = 0 THEN <<>>
    ELSE SucceededFindings(n - 1) \o
         (IF ad_outcomes[n] = "findings"
          THEN <<[file_path |-> SignificantFiles(Len(diff_data))[n].filename,
                  line_number |-> 10, severity |-> "medium", category |-> "bug",
                  description |-> [base |-> 2, notes |-> <<>>]]>>
          ELSE <<>>)

\* C20: in LLMService.analyze_diff an exception raised while analysing one
\* selected file does not stop the analysis of the remaining selected files:
\* every selected file is analysed, the list returned holds the findings of
\* every file whose analysis succeeded, in file order (followed by the
\* cross-file findings), and analyze_diff always goes on to return.
C20_FileFailureDoesNotAbort ==
    mode = "analyze" =>
        /\ Len(ad_outcomes) = ad_pos
        /\ ad_pos <= Len(SignificantFiles(Len(diff_data)))
        /\ ad_pc # "files" => ad_pos = Len(SignificantFiles(Len(diff_data)))
        /\ llm_findings =
              SucceededFindings(ad_pos) \o
              (IF cross_outcome = "findings"
               THEN <<[file_path |-> "cross-file-analysis", line_number |-> 0,
                       severity |-> "medium", category |-> "bug",
                       description |-> [base |-> 3, notes |-> <<>>]]>>
               ELSE <<>>)
        /\ ad_pc # "returned" =>
              ENABLED (AnalyzeFileReturns \/ AnalyzeFileRaises \/ AnalyzeFilesDone
                       \/ AnalyzeCrossFile)

\* C20 witness: of three selected files the second one's analysis raised and
\* the findings of the first and the third were returned
C20_Witness_MiddleFileFailed ==
    /\ ad_pc = "returned"
    /\ ad_outcomes = <<"findings", "raised", "findings">>
    /\ Len(llm_findings) = 2
    /\ llm_findings[1].file_path = "f1.py"
    /\ llm_findings[2].file_path = "f3.py"

(***************************************************************************)
(* app/services/llm_service.py: LLMService._parse_llm_response.            *)
(* The response is text; it is modelled by its lines.  A line is a         *)
(* markdown fence, a line of prose (with or without square brackets), the  *)
(* opening or closing bracket of the JSON array, or one array item (the    *)
(* commas between items are left out).  A JSON value is its kind and its   *)
(* payload.                                                                *)
(***************************************************************************)
Absent == [k |-> "absent", s |-> "", n |-> 0]

Null == [k |-> "null", s |-> "", n |-> 0]

Str(text) == [k |-> "str", s |-> text, n |-> 0]

Num(i) == [k |-> "num", s |-> "", n |-> i]

\* a JSON object with the keys the parser reads (Absent: the key is missing)
Obj(title, description, severity, category, suggestion, line) ==
    [dict |-> TRUE, title |-> title, description |-> description,
     severity |-> severity, category |-> category, suggestion |-> suggestion,
     line_number |-> line]

\* an array item that is not an object, such as 1 or "note"
NonObject == [Obj(Absent, Absent, Absent, Absent, Absent, Absent) EXCEPT !.dict = FALSE]

\* the items the responses are made of
ItemKinds ==
    {Obj(Str("t1"), Str("d1"), Str("high"), Str("security"), Str("s1"), Num(10)),
     Obj(Str("t2"), Str("d2"), Str("CRITICAL"), Str("Bug"), Absent, Num(0)),
     Obj(Str("t3"), Str("d3"), Absent, Absent, Absent, Absent),
     Obj(Str("t4"), Str("d4"), Str("urgent"), Str("style"), Str("s4"), Absent),
     NonObject,
     Obj(Absent, Str("d5"), Str("low"), Str("bug"), Absent, Num(10)),
     Obj(Str("t6"), Str(""), Str("low"), Str("bug"), Absent, Num(10)),
     Obj(Str("t7"), Str("d7"), Null, Str("bug"), Absent, Num(10)),
     Obj(Str("t8"), Str("d8"), Str("low"), Num(3), Absent, Num(10)),
     Obj(Num(9), Str("d9"), Str("low"), Str("bug"), Absent, Num(10)),
     Obj(Str("t10"), Str("d10"), Str("low"), Str("bug"), Null, Num(10))}

ItemLists == UNION {[1..n -> ItemKinds] : n \in 0..MaxItems}

\* the lines of a response
Line(t) == [t |-> t, item |-> NonObject]

ItemLine(item) == [t |-> "item", item |-> item]

ItemLines(items) == [j \in 1..Len(items) |-> ItemLine(items[j])]

\* "[", the items, "]"
ArrayText(items) == <<Line("open")>> \o ItemLines(items) \o <<Line("close")>>

\* the same inside ```json ... ```
FencedArrayText(items) ==
    <<Line("fence_open")>> \o ArrayText(items) \o <<Line("fence_close")>>

Prefixes ==
    {<<>>, <<Line("prose")>>, <<Line("fence_open")>>,
     <<Line("prose"), Line("fence_open")>>, <<Line("prose_brackets")>>}

Suffixes ==
    {<<>>, <<Line("fence_close")>>, <<Line("fence_close"), Line("prose")>>,
     <<Line("prose_brackets")>>}

\* what may stand between prefix and suffix: nothing, bare objects, an array,
\* an array cut short at either end
Bodies(items) ==
    {<<>>, ItemLines(items), ArrayText(items),
     <<Line("open")>> \o ItemLines(items), ItemLines(items) \o <<Line("close")>>}

SimpleLists ==
    {<<>>, <<NonObject>>,
     <<Obj(Str("t1"), Str("d1"), Str("high"), Str("security"), Str("s1"), Num(10))>>}

\* the responses of the model: every text shape around a simple array, and
\* every item list as a bare or fenced array
Responses ==
    {pre \o body \o suf :
        pre \in Prefixes, suf \in Suffixes,
        body \in UNION {Bodies(items) : items \in SimpleLists}}
    \cup {ArrayText(items) : items \in ItemLists}
    \cup {FencedArrayText(items) : items \in ItemLists}

\* response_clean.startswith('```')
StartsWithFence(lines) == lines # <<>> /\ lines[1].t \in {"fence_open", "fence_close"}

\* '\n'.join(lines[1:-1]) if len(lines) > 2 else response_clean
StripFence(lines) ==
    IF StartsWithFence(lines) /\ Len(lines) > 2
    THEN SubSeq(lines, 2, Len(lines) - 1)
    ELSE lines

HasOpenBracket(line) == line.t \in {"open", "prose_brackets"}

HasCloseBracket(line) == line.t \in {"close", "prose_brackets"}

\* response_clean.find('['), as a line index (0: not found)
json_start(lines) ==
    IF \E j \in 1..Len(lines) : HasOpenBracket(lines[j])
    THEN CHOOSE j \in 1..Len(lines) :
            /\ HasOpenBracket(lines[j])
            /\ \A i \in 1..(j - 1) : ~HasOpenBracket(lines[i])
    ELSE 0

\* response_clean.rfind(']'), as a line index (0: not found)
json_end(lines) ==
    IF \E j \in 1..Len(lines) : HasCloseBracket(lines[j])
    THEN CHOOSE j \in 1..Len(lines) :
            /\ HasCloseBracket(lines[j])
            /\ \A i \in (j + 1)..Len(lines) : ~HasCloseBracket(lines[i])
    ELSE 0

\* response_clean[json_start:json_end]: an empty slice when the last ']'
\* is before the first '['
json_str(lines) == SubSeq(lines, json_start(lines), json_end(lines))

\* json.loads(json_str).  The text decodes when it is "[", items, "]" and
\* nothing else, or the "[1]" of one line of prose; a slice that begins or
\* ends inside prose with more text around it does not.  (The responses hold
\* no nested arrays.)
Decodes(slice) ==
    \/ Len(slice) = 1 /\ slice[1].t = "prose_brackets"
    \/ /\ Len(slice) >= 2
       /\ slice[1].t = "open"
       /\ slice[Len(slice)].t = "close"
       /\ \A j \in 2..(Len(slice) - 1) : slice[j].t = "item"

Decoded(slice) ==
    IF Len(slice) = 1 THEN <<NonObject>>
    ELSE [j \in 1..(Len(slice) - 2) |-> slice[j + 1].item]

\* dict.get(key, default)
Get(item, key, default) == IF item[key].k = "absent" THEN default ELSE item[key]

\* the truth value of a JSON value
Truthy(v) == (v.k = "str" /\ v.s # "") \/ (v.k = "num" /\ v.n # 0)

\* str.lower() on the strings of the responses
Lower(text) ==
    CASE text = "CRITICAL" -> "critical"
      [] text = "Bug" -> "bug"
      [] OTHER -> text

\* severity_map.get(..., FindingSeverity.MEDIUM)
severity_map(text) ==
    IF text \in {"critical", "high", "medium", "low"} THEN text ELSE "medium"

\* category_map.get(..., FindingCategory.BUG)
category_map(text) ==
    IF text \in {"bug", "security", "performance", "best_practice"} THEN text
    ELSE "bug"

\* the exception the finding = {...} literal raises for this item, "None" if
\* none: .lower() of a value that is not a string is an AttributeError, a
\* slice of one a TypeError; the entries are evaluated in order
ItemRaises(item) ==
    IF Get(item, "severity", Str("")).k # "str" THEN "AttributeError"
    ELSE IF Get(item, "category", Str("")).k # "str" THEN "AttributeError"
    ELSE IF Get(item, "title", Str("AI-detected issue")).k # "str" THEN "TypeError"
    ELSE IF Get(item, "description", Str("")).k # "str" THEN "TypeError"
    ELSE IF Get(item, "suggestion", Str("")).k # "str" THEN "TypeError"
    ELSE "None"

\* the finding built from an item (the texts are shorter than the limits of
\* the slices)
ItemFinding(item, filename) ==
    [file_path |-> filename,
     line_number |-> Get(item, "line_number", Num(0)).n,
     severity |-> severity_map(Lower(Get(item, "severity", Str("")).s)),
     category |-> category_map(Lower(Get(item, "category", Str("")).s)),
     rule_id |-> "AI:reasoning",
     title |-> Get(item, "title", Str("AI-detected issue")).s,
     description |-> [base |-> Get(item, "description", Str("")).s, notes |-> <<>>],
     suggestion |-> Get(item, "suggestion", Str("")).s,
     is_ai_generated |-> 1]

\* not isinstance(item, dict), or not item.get("title") or not item.get("description")
ItemSkipped(item) ==
    \/ ~item.dict
    \/ ~Truthy(item.title)
    \/ ~Truthy(item.description)

\* except json.JSONDecodeError / except Exception: both log and fall through
\* to return findings
Caught_mutant_decode_only(exc) == exc = "JSONDecodeError"
Caught(exc) == TRUE

InitParse ==
    /\ mode = "parse"
    /\ DedupIdle
    /\ DiffIdle
    /\ PipeIdle
    /\ RuleIdle
    /\ CredIdle
    /\ CallIdle
    /\ AnalyzeIdle
    /\ RiskIdle
    /\ ClusterIdle
    /\ llm_text \in Responses
    /\ plr_filename \in {"app.py", "cross-file-analysis"}
    /\ plr_data = <<>>
    /\ plr_idx = 0
    /\ plr_pc = "start"
    /\ plr_exc = "None"
    /\ plr_findings = <<>>
    /\ plr_dedup = NotRun

plrOther == <<mode, dedupVars, diffVars, pipeVars, ruleVars, credVars, callVars, adVars,
              riskVars, clusterVars, llm_text, plr_filename>>

\* fence removal, find('[') / rfind(']'): no array located, return []
PlrNoArray ==
    /\ mode = "parse"
    /\ plr_pc = "start"
    /\ LET clean == StripFence(llm_text)
       IN json_start(clean) = 0 \/ json_end(clean) = 0
    /\ plr_pc' = "returned"
    /\ UNCHANGED <<plrOther, plr_data, plr_idx, plr_exc, plr_findings, plr_dedup>>

\* json.loads raises JSONDecodeError
PlrDecodeFails ==
    /\ mode = "parse"
    /\ plr_pc = "start"
    /\ LET clean == StripFence(llm_text)
       IN /\ json_start(clean) # 0
          /\ json_end(clean) # 0
          /\ ~Decodes(json_str(clean))
    /\ plr_pc' = "except"
    /\ plr_exc' = "JSONDecodeError"
    /\ UNCHANGED <<plrOther, plr_data, plr_idx, plr_findings, plr_dedup>>

\* json.loads returns data (a list, the text beginning with '[')
PlrDecode ==
    /\ mode = "parse"
    /\ plr_pc = "start"
    /\ LET clean == StripFence(llm_text)
       IN /\ json_start(clean) # 0
          /\ json_end(clean) # 0
          /\ Decodes(json_str(clean))
          /\ plr_data' = Decoded(json_str(clean))
    /\ plr_pc' = "loop"
    /\ UNCHANGED <<plrOther, plr_idx, plr_exc, plr_findings, plr_dedup>>

\* one iteration of `for idx, item in enumerate(data)`
PlrItem ==
    /\ mode = "parse"
    /\ plr_pc = "loop"
    /\ plr_idx < Len(plr_data)
    /\ LET item == plr_data[plr_idx + 1]
       IN IF ItemSkipped(item)
          THEN /\ plr_idx' = plr_idx + 1
               /\ UNCHANGED <<plr_pc, plr_exc, plr_findings>>
          ELSE IF ItemRaises(item) # "None"
          THEN /\ plr_pc' = "except"
               /\ plr_exc' = ItemRaises(item)
               /\ UNCHANGED <<plr_idx, plr_findings>>
          ELSE /\ plr_idx' = plr_idx + 1
               /\ plr_findings' = Append(plr_findings, ItemFinding(item, plr_filename))
               /\ UNCHANGED <<plr_pc, plr_exc>>
    /\ UNCHANGED <<plrOther, plr_data, plr_dedup>>

\* the loop is over: return findings
PlrLoopEnd ==
    /\ mode = "parse"
    /\ plr_pc = "loop"
    /\ plr_idx = Len(plr_data)
    /\ plr_pc' = "returned"
    /\ UNCHANGED <<plrOther, plr_data, plr_idx, plr_exc, plr_findings, plr_dedup>>

\* the except clauses: the error is logged, then return findings
PlrHandler ==
    /\ mode = "parse"
    /\ plr_pc = "except"
    /\ plr_pc' = IF Caught(plr_exc) THEN "returned" ELSE "raised"
    /\ UNCHANGED <<plrOther, plr_data, plr_idx, plr_exc, plr_findings, plr_dedup>>

\* the caller's deduplicate_findings over the findings returned
PlrDedup ==
    /\ mode = "parse"
    /\ plr_pc = "returned"
    /\ ~plr_dedup.ran
    /\ plr_dedup' = deduplicate_findings(plr_findings)
    /\ UNCHANGED <<plrOther, plr_data, plr_idx, plr_pc, plr_exc, plr_findings>>

NextParse ==
    \/ PlrNoArray
    \/ PlrDecodeFails
    \/ PlrDecode
    \/ PlrItem
    \/ PlrLoopEnd
    \/ PlrHandler
    \/ PlrDedup

SpecParse == InitParse /\ [][NextParse]_vars

(***************************************************************************)
(* Claims about _parse_llm_response (checked under SpecParse).             *)
(***************************************************************************)
\* a JSON array can be located in the response and decoded
ArrayDecoded ==
    LET clean == StripFence(llm_text)
    IN /\ json_start(clean) # 0
       /\ json_end(clean) # 0
       /\ Decodes(json_str(clean))

\* the finding comes from an item that is an object with a title and a
\* description
FromValidItem(f) ==
    \E i \in 1..Len(plr_data) :
        /\ plr_data[i].dict
        /\ Truthy(plr_data[i].title)
        /\ Truthy(plr_data[i].description)
        /\ plr_data[i].title = Str(f.title)
        /\ plr_data[i].description = Str(f.description.base)

ProseThenFencedEmptyArray ==
    <<Line("prose"), Line("fence_open"), Line("open"), Line("close"), Line("fence_close")>>

\* C21: _parse_llm_response never raises, whatever the response: every call
\* goes on to return; it returns the empty list when no JSON array can be
\* located or decoded (so prose followed by a fenced empty array gives the
\* empty list, decoded without error), and every finding it returns comes
\* from an item that is an object with a title and a description.
C21_ParseNeverRaises ==
    /\ plr_pc # "raised"
    /\ plr_pc \in {"start", "loop", "except"} =>
           ENABLED (PlrNoArray \/ PlrDecodeFails \/ PlrDecode \/ PlrItem
                        \/ PlrLoopEnd \/ PlrHandler)
    /\ plr_pc = "returned" =>
           /\ ~ArrayDecoded => plr_findings = <<>>
           /\ llm_text = ProseThenFencedEmptyArray =>
                  plr_findings = <<>> /\ plr_exc = "None"
           /\ \A j \in 1..Len(plr_findings) : FromValidItem(plr_findings[j])

\* an exception raised while an item was processed has been caught and the
\* findings built before it returned
C21_Witness_ItemErrorCaught ==
    /\ plr_pc = "returned"
    /\ plr_exc = "AttributeError"
    /\ Len(plr_findings) > 0

\* C22: every finding of the cross-file impact stage has line_number 0,
\* whatever line_number the item of the response carried.
C22_CrossFileLineNumberZero ==
    (plr_filename = "cross-file-analysis" /\ plr_pc = "returned") =>
        \A j \in 1..Len(plr_findings) : plr_findings[j].line_number = 0

\* the items the claim speaks of: objects with a non-empty title and a
\* non-empty description
Acceptable(item) ==
    /\ item.dict
    /\ item.title.k = "str" /\ item.title.s # ""
    /\ item.description.k = "str" /\ item.description.s # ""

TitleAndDescription(fs) ==
    [j \in 1..Len(fs) |-> <<fs[j].title, fs[j].description.base>>]

ItemTitleAndDescription(items) ==
    [j \in 1..Len(items) |-> <<items[j].title.s, items[j].description.s>>]

\* C30: acceptance of an item does not depend on the other items: the
\* findings returned are, in input order, one for each item of the decoded
\* list that is an object with a non-empty title and description.
C30_ItemAcceptanceIndependent ==
    plr_pc = "returned" =>
        TitleAndDescription(plr_findings)
            = ItemTitleAndDescription(SelectSeq(plr_data, Acceptable))

\* the cross-file findings without a line of their own, in the parser's
\* output and after deduplication
CrossFileZero(fs) ==
    {j \in 1..Len(fs) : fs[j].file_path = "cross-file-analysis" /\ fs[j].line_number = 0}

\* the most severe of them, the first in input order among equals
MostSevereFirst(fs) ==
    CHOOSE i \in CrossFileZero(fs) :
        \A j \in CrossFileZero(fs) :
            \/ SeverityRank[fs[i].severity] < SeverityRank[fs[j].severity]
            \/ SeverityRank[fs[i].severity] = SeverityRank[fs[j].severity] /\ i <= j

\* C29: all cross-file findings have the file_path "cross-file-analysis",
\* so those with line_number 0 share one deduplication key: after
\* deduplicate_findings at most one of them remains, the most severe one
\* (the first in input order among equals), however many were reported.
C29_CrossFileFindingsCollapse ==
    (plr_filename = "cross-file-analysis" /\ plr_dedup.ran) =>
        /\ ~plr_dedup.raised
        /\ \A j \in 1..Len(plr_findings) :
               plr_findings[j].file_path = "cross-file-analysis"
        /\ Cardinality(CrossFileZero(plr_dedup.value)) <= 1
        /\ CrossFileZero(plr_findings) # {} =>
               \E j \in CrossFileZero(plr_dedup.value) :
                   LET kept == plr_findings[MostSevereFirst(plr_findings)]
                   IN /\ plr_dedup.value[j].title = kept.title
                      /\ plr_dedup.value[j].severity = kept.severity
                      /\ plr_dedup.value[j].description.base = kept.description.base

\* three distinct cross-file issues without a line were reported, two of
\* them equally severe, and one finding is left
C29_Witness_ThreeIssuesOneLeft ==
    /\ plr_filename = "cross-file-analysis"
    /\ plr_dedup.ran
    /\ Cardinality(CrossFileZero(plr_findings)) = 3
    /\ Cardinality({plr_findings[j].title : j \in CrossFileZero(plr_findings)}) = 3
    /\ \E i, j \in CrossFileZero(plr_findings) :
           i # j /\ plr_findings[i].severity = plr_findings[j].severity
    /\ Len(plr_dedup.value) = 1

(***************************************************************************)
(* app/services/llm_service.py: LLMService.compute_risk_score.             *)
(* The heuristic components are fractions (/ 20, * 1.5, additions over     *)
(* deletions); they are computed exactly, as numerators over the common    *)
(* denominator 20 * max(total_deletions, 1).  The adjustment the model     *)
(* proposes may be fractional: it is kept in halves.                       *)
(***************************************************************************)
Min(a, b) == IF a <= b THEN a ELSE b

Max(a, b) == IF a >= b THEN a ELSE b

\* Python's round() of the non-negative fraction num / den: to the nearest
\* integer, a tie to the even one
Round(num, den) ==
    LET q == num \div den
        r == num % den
    IN IF 2 * r < den THEN q
       ELSE IF 2 * r > den THEN q + 1
       ELSE IF q % 2 = 0 THEN q ELSE q + 1

RECURSIVE Sum(_, _)
Sum(seq, field) ==
    IF seq = <<>> THEN 0
    ELSE seq[Len(seq)][field] + Sum(SubSeq(seq, 1, Len(seq) - 1), field)

\* sum(1 for f in findings if f.get("severity") in (sev, FindingSeverity.<SEV>))
CountSeverity(findings, sev) ==
    Cardinality({j \in 1..Len(findings) : findings[j].severity = sev})

\* files whose name contains one of sensitive_patterns
sensitive_files(files) == Cardinality({j \in 1..Len(files) : files[j].sensitive})

\* the common denominator of the components
Denominator(files) == 20 * Max(Sum(files, "deletions"), 1)

\* min(30, (total_additions + total_deletions) / 20)
size_score(files) ==
    Min(30 * Denominator(files),
        (Sum(files, "additions") + Sum(files, "deletions"))
            * Max(Sum(files, "deletions"), 1))

\* min(40, critical_count * 15 + high_count * 8 + medium_count * 3)
severity_score(files, findings) ==
    Denominator(files)
        * Min(40, CountSeverity(findings, "critical") * 15
                    + CountSeverity(findings, "high") * 8
                    + CountSeverity(findings, "medium") * 3)

\* min(15, files_changed * 1.5 + sensitive_files * 5)
blast_radius(files) ==
    Min(15 * Denominator(files),
        (3 * Len(files) + 10 * sensitive_files(files))
            * 10 * Max(Sum(files, "deletions"), 1))

\* min(15, (total_additions / max(total_deletions, 1)) * 3 if total_deletions > 0 else 5)
complexity_score(files) ==
    Min(15 * Denominator(files),
        IF Sum(files, "deletions") > 0 THEN 60 * Sum(files, "additions")
        ELSE 5 * Denominator(files))

\* round(min(100, size_score + severity_score + blast_radius + complexity_score))
heuristic_score(files, findings) ==
    Round(Min(100 * Denominator(files),
              size_score(files) + severity_score(files, findings)
                  + blast_radius(files) + complexity_score(files)),
          Denominator(files))

\* max(-15, min(15, ai_data.get("ai_adjustment", 0))), in halves
clamp_adjustment_mutant_unclamped(halves) == halves
clamp_adjustment(halves) == Max(-30, Min(30, halves))

\* round(max(0, min(100, heuristic_score + ai_adjustment)))
final_score(heuristic, adjustment) ==
    Round(Max(0, Min(200, 2 * heuristic + adjustment)), 2)

risk_label(score) ==
    IF score >= 80 THEN "critical"
    ELSE IF score >= 60 THEN "high"
    ELSE IF score >= 35 THEN "medium"
    ELSE "low"

\* what _call_llm_raw and the decoding of its text can do: the provider call
\* raises; the text is empty (no provider), is not JSON, is a JSON array
\* (the "[]" of a failed Google call), or is a JSON object, bare or fenced
ReplyKinds == {"raises", "empty", "malformed", "array", "object", "fenced_object"}

\* the values of "ai_adjustment": missing, null, a string, or a number (in
\* halves: -80 is -40, 5 is 2.5)
AdjustmentValues ==
    {[k |-> "absent", halves |-> 0], [k |-> "null", halves |-> 0],
     [k |-> "str", halves |-> 0]}
    \cup {[k |-> "num", halves |-> h] : h \in {-80, -5, 14, 80}}

Replies ==
    {[kind |-> kind, ai_adjustment |-> [k |-> "absent", halves |-> 0], explanation |-> ""] :
        kind \in ReplyKinds \ {"object", "fenced_object"}}
    \cup {[kind |-> "object", ai_adjustment |-> v, explanation |-> "why"] :
            v \in AdjustmentValues}
    \cup {[kind |-> "fenced_object", ai_adjustment |-> v, explanation |-> ""] :
            v \in AdjustmentValues}

\* the exception raised between the request and the end of the try block,
\* "None" if none
ReplyRaises(reply) ==
    CASE reply.kind = "raises" -> "ProviderError"
      [] reply.kind \in {"empty", "malformed"} -> "JSONDecodeError"
      [] reply.kind = "array" -> "AttributeError"
      [] OTHER -> IF reply.ai_adjustment.k \in {"null", "str"} THEN "TypeError"
                  ELSE "None"

\* the file changes and findings compute_risk_score is given
RiskFileKinds ==
    {[additions |-> 0, deletions |-> 0, sensitive |-> FALSE],
     [additions |-> 400, deletions |-> 3, sensitive |-> TRUE],
     [additions |-> 7, deletions |-> 30, sensitive |-> FALSE]}

RiskFiles == UNION {[1..n -> RiskFileKinds] : n \in 0..MaxFiles}

RiskFindings ==
    UNION {[1..n -> [severity : {"critical", "high", "medium", "low"}]] :
           n \in 0..MaxFindings}

InitRisk ==
    /\ mode = "risk"
    /\ DedupIdle
    /\ DiffIdle
    /\ PipeIdle
    /\ RuleIdle
    /\ CredIdle
    /\ CallIdle
    /\ AnalyzeIdle
    /\ ParseIdle
    /\ ClusterIdle
    /\ rs_files \in RiskFiles
    /\ rs_findings \in RiskFindings
    /\ rs_reply \in Replies
    /\ rs_pc = "start"
    /\ rs_heuristic = 0
    /\ rs_adjustment = 0
    /\ rs_explanation = ""
    /\ rs_result = NoResult

riskOther == <<mode, dedupVars, diffVars, pipeVars, ruleVars, credVars, callVars, adVars,
               plrVars, clusterVars, rs_files, rs_findings, rs_reply>>

\* the heuristic factors and heuristic_score
RiskHeuristic ==
    /\ mode = "risk"
    /\ rs_pc = "start"
    /\ rs_heuristic' = heuristic_score(rs_files, rs_findings)
    /\ rs_pc' = "ai"
    /\ UNCHANGED <<riskOther, rs_adjustment, rs_explanation, rs_result>>

\* the try block succeeds: the adjustment is clamped, the explanation taken
RiskAdjust ==
    /\ mode = "risk"
    /\ rs_pc = "ai"
    /\ ReplyRaises(rs_reply) = "None"
    /\ rs_adjustment' = clamp_adjustment(rs_reply.ai_adjustment.halves)
    /\ rs_explanation' = rs_reply.explanation
    /\ rs_pc' = "score"
    /\ UNCHANGED <<riskOther, rs_heuristic, rs_result>>

\* except Exception: ai_adjustment = 0, explanation = ""
RiskAdjustFails ==
    /\ mode = "risk"
    /\ rs_pc = "ai"
    /\ ReplyRaises(rs_reply) # "None"
    /\ rs_adjustment' = 0
    /\ rs_explanation' = ""
    /\ rs_pc' = "score"
    /\ UNCHANGED <<riskOther, rs_heuristic, rs_result>>

\* final_score, label and the dict returned
RiskReturn ==
    /\ mode = "risk"
    /\ rs_pc = "score"
    /\ rs_result' = [score |-> final_score(rs_heuristic, rs_adjustment),
                     label |-> risk_label(final_score(rs_heuristic, rs_adjustment)),
                     explanation |-> rs_explanation,
                     ai_adjustment |-> rs_adjustment]
    /\ rs_pc' = "returned"
    /\ UNCHANGED <<riskOther, rs_heuristic, rs_adjustment, rs_explanation>>

NextRisk == RiskHeuristic \/ RiskAdjust \/ RiskAdjustFails \/ RiskReturn

SpecRisk == InitRisk /\ [][NextRisk]_vars

(***************************************************************************)
(* Claims about compute_risk_score (checked under SpecRisk).               *)
(***************************************************************************)
\* the AI adjustment request failed: the provider raised, or its text was
\* empty, malformed, or not an object with a usable ai_adjustment
AdjustmentRequestFailed ==
    \/ rs_reply.kind \notin {"object", "fenced_object"}
    \/ rs_reply.ai_adjustment.k \in {"null", "str"}

\* C23: for every list of file changes, every list of findings and every
\* outcome of the AI adjustment request, compute_risk_score returns, without
\* raising, a score within [0,100]; the ai_adjustment it used is within
\* [-15,15] (here in halves), and is 0 with an empty explanation when the
\* request failed.
C23_RiskScoreWithinRange ==
    /\ rs_pc # "raised"
    /\ rs_pc = "ai" => ENABLED (RiskAdjust \/ RiskAdjustFails)
    /\ rs_pc \in {"score", "returned"} =>
           /\ rs_adjustment >= -30 /\ rs_adjustment <= 30
           /\ AdjustmentRequestFailed => rs_adjustment = 0 /\ rs_explanation = ""
    /\ rs_pc = "returned" =>
           /\ rs_result.score >= 0 /\ rs_result.score <= 100
           /\ rs_result.ai_adjustment = rs_adjustment
           /\ rs_result.explanation = rs_explanation

\* a heuristic score of 100 and a proposed adjustment of +40: the score
\* returned is 100, the adjustment used 15
C23_Witness_ClampedAtTop ==
    /\ rs_pc = "returned"
    /\ rs_heuristic = 100
    /\ rs_reply.ai_adjustment = [k |-> "num", halves |-> 80]
    /\ rs_result.score = 100
    /\ rs_result.ai_adjustment = 30

(***************************************************************************)
(* Claims about malformed hunk headers (checked under SpecDiff).           *)
(***************************************************************************)
\* a line that begins like a hunk header and does not match the pattern
IsMalformedHeader(line) == StartsWithAtAt(line) /\ hunk_match(line) = <<>>

\* the line about to be consumed follows a malformed header with no valid
\* header in between (and is not one itself)
AfterMalformedHeader ==
    /\ mode = "diff"
    /\ parse_pc = "loop"
    /\ pos < Len(patch)
    /\ \E q \in 1..pos :
          /\ IsMalformedHeader(patch[q])
          /\ \A r \in (q + 1)..(pos + 1) : hunk_match(patch[r]) = <<>>

\* C26: wherever a malformed hunk header stands in a patch, it opens no hunk
\* and every line after it, up to the next valid header, is dropped:
\* consuming such a line records nothing in any hunk, in added_lines or in
\* removed_lines.
C26_MalformedHeaderDropsLines ==
    [][AfterMalformedHeader =>
          UNCHANGED <<hunks, current_hunk, added_lines, removed_lines>>]_vars

(***************************************************************************)
(* Claims about the findings persisted for a run (checked under Spec).     *)
(***************************************************************************)
\* C27: after any sequence of task executions for a run, Celery retries
\* included and no rerun in between, the Finding rows of the run hold at
\* most one row per (file_path, line_number): a retried execution adds
\* nothing on top of what an earlier execution stored.
C27_RetryAddsNoDuplicateFindings ==
    reruns = 0 =>
        \A i, j \in 1..Len(stored) :
            FindingKey(stored[i]) = FindingKey(stored[j]) => i = j

(***************************************************************************)
(* Claims about the two deduplications (checked under SpecDedup).          *)
(***************************************************************************)
\* C28: deduplicate_findings of the Celery task and the deduplication block
\* of _run_analysis_inline are equivalent: on every input list (severities
\* critical, high, medium, low, info) both return the same list or both
\* fail.
C28_TaskAndInlineDedupAgree ==
    (dedup_out.ran /\ inline_out.ran) =>
        /\ dedup_out.raised = inline_out.raised
        /\ dedup_out.value = inline_out.value

(***************************************************************************)
(* app/services/semantic_search.py:                                        *)
(* SemanticSearchService.analyze_finding_patterns, one outer loop          *)
(* iteration per step.  An embedding is a vector of two integers;          *)
(* min_similarity is in hundredths.  Of the dict returned the model keeps  *)
(* recurring_issues (hotspot_files and learning_opportunities are derived  *)
(* from the same clusters).                                                *)
(***************************************************************************)
\* `if len(findings) < 5`
min_findings == 5

Dot(a, b) == a[1] * b[1] + a[2] * b[2]

\* _cosine_similarity(emb1, emb2) >= min_similarity, the similarity being
\* 0.0 when a norm is 0 and dot / (norm1 * norm2) otherwise
SimilarEnough(vec1, vec2, min_similarity) ==
    IF Dot(vec1, vec1) = 0 \/ Dot(vec2, vec2) = 0 THEN 0 >= min_similarity
    ELSE IF min_similarity <= 0 THEN
        \/ Dot(vec1, vec2) >= 0
        \/ 10000 * Dot(vec1, vec2) * Dot(vec1, vec2)
              <= min_similarity * min_similarity * Dot(vec1, vec1) * Dot(vec2, vec2)
    ELSE /\ Dot(vec1, vec2) >= 0
         /\ 10000 * Dot(vec1, vec2) * Dot(vec1, vec2)
               >= min_similarity * min_similarity * Dot(vec1, vec1) * Dot(vec2, vec2)

\* the indices of a set in increasing order
RECURSIVE Ascending(_)
Ascending(S) ==
    IF S = {} THEN <<>>
    ELSE LET m == CHOOSE x \in S : \A y \in S : x <= y
         IN <<m>> \o Ascending(S \ {m})

\* the inner loop: the later findings, not yet processed, that are within
\* min_similarity of the seed
Linked(findings, i, processed, min_similarity) ==
    {j \in (i + 1)..Len(findings) :
        /\ j \notin processed
        /\ SimilarEnough(findings[i].embedding, findings[j].embedding, min_similarity)}

\* clusters[title].extend(cluster) on the defaultdict(list)
ExtendCluster(clusters, title, cluster) ==
    IF \E k \in 1..Len(clusters) : clusters[k].title = title
    THEN [k \in 1..Len(clusters) |->
            IF clusters[k].title = title
            THEN [clusters[k] EXCEPT !.members = @ \o cluster]
            ELSE clusters[k]]
    ELSE Append(clusters, [title |-> title, members |-> cluster])

\* the recurring_issues entry of one item of clusters
RecurringIssue(findings, entry) ==
    [issue_type |-> entry.title,
     occurrences |-> Len(entry.members),
     affected_files |->
        {findings[entry.members[m]].file_path : m \in 1..Len(entry.members)}]

\* for title, cluster_findings in clusters.items(): if len(cluster_findings) >= 2
recurring_issues(findings, clusters) ==
    LET kept == SelectSeq(clusters, LAMBDA entry : Len(entry.members) >= 2)
    IN [k \in 1..Len(kept) |-> RecurringIssue(findings, kept[k])]

Embeddings == {<<1, 0>>, <<2, 1>>, <<1, 2>>}

HistoryFindingKinds ==
    {[title |-> t, file_path |-> IF e = <<1, 0>> THEN "a.py" ELSE "b.py", embedding |-> e] :
        t \in {"SQL injection", "Unused import"}, e \in Embeddings}

Histories == UNION {[1..n -> HistoryFindingKinds] : n \in 0..MaxHistory}

InitCluster ==
    /\ mode = "cluster"
    /\ DedupIdle
    /\ DiffIdle
    /\ PipeIdle
    /\ RuleIdle
    /\ CredIdle
    /\ CallIdle
    /\ AnalyzeIdle
    /\ ParseIdle
    /\ RiskIdle
    /\ cl_findings \in Histories
    /\ cl_available \in BOOLEAN
    /\ cl_available = FALSE => Len(cl_findings) = 0
    /\ cl_min_similarity \in {75, 85}
    /\ cl_i = 0
    /\ cl_pc = "start"
    /\ cl_processed = {}
    /\ cl_clusters = <<>>
    /\ cl_formed = <<>>
    /\ cl_result = <<>>

clusterOther == <<mode, dedupVars, diffVars, pipeVars, ruleVars, credVars, callVars, adVars,
                  plrVars, riskVars, cl_available, cl_findings, cl_min_similarity>>

\* `if not self.is_available()`: the empty result
ClusterUnavailable ==
    /\ mode = "cluster"
    /\ cl_pc = "start"
    /\ ~cl_available
    /\ cl_pc' = "returned"
    /\ UNCHANGED <<clusterOther, cl_i, cl_processed, cl_clusters, cl_formed, cl_result>>

\* `if len(findings) < 5`: the empty result
ClusterTooFew ==
    /\ mode = "cluster"
    /\ cl_pc = "start"
    /\ cl_available
    /\ Len(cl_findings) < min_findings
    /\ cl_pc' = "returned"
    /\ UNCHANGED <<clusterOther, cl_i, cl_processed, cl_clusters, cl_formed, cl_result>>

\* the clustering starts
ClusterStart ==
    /\ mode = "cluster"
    /\ cl_pc = "start"
    /\ cl_available
    /\ Len(cl_findings) >= min_findings
    /\ cl_pc' = "loop"
    /\ UNCHANGED <<clusterOther, cl_i, cl_processed, cl_clusters, cl_formed, cl_result>>

\* an outer iteration on a processed finding: continue
ClusterSkip ==
    /\ mode = "cluster"
    /\ cl_pc = "loop"
    /\ cl_i < Len(cl_findings)
    /\ (cl_i + 1) \in cl_processed
    /\ cl_i' = cl_i + 1
    /\ UNCHANGED <<clusterOther, cl_pc, cl_processed, cl_clusters, cl_formed, cl_result>>

\* an outer iteration on an unprocessed finding, the seed of a cluster
ClusterSeed ==
    /\ mode = "cluster"
    /\ cl_pc = "loop"
    /\ cl_i < Len(cl_findings)
    /\ (cl_i + 1) \notin cl_processed
    /\ LET linked == Linked(cl_findings, cl_i + 1, cl_processed, cl_min_similarity)
           cluster == <<cl_i + 1>> \o Ascending(linked)
       IN /\ cl_processed' = cl_processed \cup linked
          /\ IF Len(cluster) > 1
             THEN /\ cl_clusters' = ExtendCluster(cl_clusters,
                                                  cl_findings[cl_i + 1].title, cluster)
                  /\ cl_formed' = Append(cl_formed, cluster)
             ELSE UNCHANGED <<cl_clusters, cl_formed>>
    /\ cl_i' = cl_i + 1
    /\ UNCHANGED <<clusterOther, cl_pc, cl_result>>

\* the loops are over: recurring_issues is built and returned
ClusterReport ==
    /\ mode = "cluster"
    /\ cl_pc = "loop"
    /\ cl_i = Len(cl_findings)
    /\ cl_result' = recurring_issues(cl_findings, cl_clusters)
    /\ cl_pc' = "returned"
    /\ UNCHANGED <<clusterOther, cl_i, cl_processed, cl_clusters, cl_formed>>

NextCluster ==
    \/ ClusterUnavailable
    \/ ClusterTooFew
    \/ ClusterStart
    \/ ClusterSkip
    \/ ClusterSeed
    \/ ClusterReport

SpecCluster == InitCluster /\ [][NextCluster]_vars

(***************************************************************************)
(* Claims about analyze_finding_patterns (checked under SpecCluster).      *)
(***************************************************************************)
Members(cluster) == {cluster[m] : m \in 1..Len(cluster)}

\* the clustering was carried out and its result returned
ClusteringReturned ==
    /\ cl_pc = "returned"
    /\ cl_available
    /\ Len(cl_findings) >= min_findings

\* C25: the greedy clustering takes the first unprocessed finding as seed
\* and links every later unprocessed finding within min_similarity of it,
\* so no finding is in two clusters and no linked finding is a seed; each
\* cluster of at least 2 members is reported as exactly one recurring
\* issue, keyed by its seed's title, whose occurrences is the cluster's size.
C25_OneRecurringIssuePerCluster ==
    /\ \A c, d \in 1..Len(cl_formed) :
           c # d => Members(cl_formed[c]) \cap Members(cl_formed[d]) = {}
    /\ ClusteringReturned =>
           /\ Len(cl_result) = Len(cl_formed)
           /\ \A c \in 1..Len(cl_formed) :
                  Cardinality({r \in 1..Len(cl_result) :
                      /\ cl_result[r].issue_type = cl_findings[cl_formed[c][1]].title
                      /\ cl_result[r].occurrences = Len(cl_formed[c])}) = 1

(***************************************************************************)
(* Claims about a run whose owner has no LLM credential (checked under     *)
(* Spec).                                                                  *)
(***************************************************************************)
NoCredential == \A p \in Providers : ~HasCredential(p)

\* the row of the rule engine's finding alone, in an execution whose stages F
\* gave nothing
RuleOnlyRow(F) ==
    [file_path |-> "app.py", line_number |-> 10, severity |-> "high",
     category |-> "security", description |-> [base |-> 1, notes |-> <<>>],
     auto_fix_code |-> "None",
     embedding |-> IF "embedding" \in F THEN "None" ELSE "vector"]

\* C24: when no LLM provider has a credential, the LLM stages of an
\* execution send no request to any provider and do not send the execution
\* to its failure handler; its commit makes the run COMPLETED and persists
\* exactly the deduplicated findings of the rule engine, with no auto-fix
\* and no summary.
C24_NoCredentialRuleFindingsOnly ==
    [][NoCredential =>
          \A e \in ExecIds :
              /\ execs'[e].llm_calls = {}
              /\ (execs[e].pc = "analyze" /\ execs'[e] # execs[e])
                    => (execs'[e].pc = "commit" /\ execs'[e].exc = "None")
              /\ (execs[e].pc = "commit" /\ execs'[e].pc = "post")
                    => /\ status' = "completed"
                       /\ stored' = stored \o <<RuleOnlyRow(execs[e].failed)>>
                       /\ pr_summary' = "None"]_vars

\* C24 witness: without any credential a run is COMPLETED with the rule
\* engine's finding as its only row, a risk score and no summary
C24_Witness_CompletedWithoutProvider ==
    /\ NoCredential
    /\ status = "completed"
    /\ stored = <<RuleOnlyRow({})>>
    /\ risk_score = "set"
    /\ pr_summary = "None"
    /\ \A e \in ExecIds : execs[e].pc = "idle"

====
